---- MODULE Spec2Model ----
(***************************************************************************)
(* CypherPokerAnalyzer: capture of a hand's transcript (deck snapshots,    *)
(* deal lists, keychains), the keychain-commit gate with its timeout, the  *)
(* cryptographic verification of the deck and of the deals (analyzeCards)  *)
(* and the scoring of the verified hands (scoreHands).                     *)
(***************************************************************************)
EXTENDS Integers, Sequences, FiniteSets, TLC

VARIABLES
    listening,     \* the per-move game listeners and "gameanalyze" are subscribed
    kcListening,   \* the "gameplayerkeychain" listener is subscribed
    timer,         \* keychain-commit timer: "idle" | "armed" | "lost" (armed, its
                   \* handle overwritten) | "cleared" | "fired"
    folded,        \* PIDs whose copy in this._players has hasFolded == true
    players,       \* the keychain of each copy in this._players
    deck,          \* this._deck: sequence of [fromPID, cards]
    mappedDeck,    \* this._mappedDeck: mappings of the captured face-up cards
    deals,         \* this._deals: dealer PID -> sequence of deal entries
    dealKeys,      \* the keys of this._deals in insertion order (for..in order)
    keychains,     \* this._keychains: PID -> keychain (sequence of keypairs)
    analysis,      \* this._analysis
    events,        \* lifecycle events dispatched so far, in order
    ac,            \* activation record of the suspended analyzeCards call
    deviations,    \* game layer: protocol deviations the players made so far
    handObjs,      \* scoring: the hand objects (hand, name, score) given to scoreHand
    arrays         \* the arrays given to compareDecks / removeFromDeck, and the result

vars == <<listening, kcListening, timer, folded, deck, mappedDeck, deals,
          dealKeys, keychains, analysis, events, ac, deviations, handObjs,
          arrays, players>>

-----------------------------------------------------------------------------
(* Bounds of the model *)

\* number of residues the crypto primitive works on (values 0..Modulus-1)
Modulus == 7
\* number of cards of the generated face-up deck
DeckSize == 5
\* most cardsEncrypted events captured
MaxSnapshots == 2
\* most deal entries captured over all dealers
MaxDeals == 6
\* most deviations from the protocol the players make in one hand
MaxDeviations == 1

-----------------------------------------------------------------------------
(* The game layer the analyzer is attached to *)

\* game.players, in order; the first is the dealer, the analyzer runs for OwnPID
Roster == <<"P1", "P2">>
Players == {Roster[i] : i \in 1..Len(Roster)}
OwnPID == "P1"

Values == 0..(Modulus - 1)

\* game.cardDecks.faceup: the plaintext mappings the dealer generated
FaceUpDeck == [i \in 1..DeckSize |-> i - 1]

\* the keychain each player really used during the hand (last keypair is live)
PlayerKeychain(p) == IF p = "P1" THEN <<2, 1>> ELSE <<3>>

\* a keychain that is not the one the player used
WrongKeychain(p) == IF p = "P1" THEN <<1, 2>> ELSE <<3, 5>>

-----------------------------------------------------------------------------
(* Crypto primitive: commutative, deterministic, invertible *)

Encrypt(value, keypair) == (value + keypair) % Modulus
Decrypt(value, keypair) == (value + Modulus - (keypair % Modulus)) % Modulus

Last(s) == s[Len(s)]

\* the results of a batch of crypto calls, one per value, in the order issued
EncryptAll(cards, keypair) == [i \in 1..Len(cards) |-> Encrypt(cards[i], keypair)]
DecryptAll(cards, keypair) == [i \in 1..Len(cards) |-> Decrypt(cards[i], keypair)]

-----------------------------------------------------------------------------
(* Array helpers *)

\* Array.prototype.splice(i, 1) on a 1-based sequence
RemoveAt(s, i) == [j \in 1..(Len(s) - 1) |-> IF j < i THEN s[j] ELSE s[j + 1]]

\* index of the first element of s equal to x, 0 when there is none
RECURSIVE IndexFrom(_, _, _)
IndexFrom(s, x, i) ==
    IF i > Len(s) THEN 0
    ELSE IF s[i] = x THEN i
    ELSE IndexFrom(s, x, i + 1)
IndexOf(s, x) == IndexFrom(s, x, 1)

\* s without any element equal to x (the inner while loop of removeFromDeck)
RECURSIVE RemoveAll(_, _)
RemoveAll(s, x) ==
    IF s = <<>> THEN <<>>
    ELSE IF Head(s) = x THEN RemoveAll(Tail(s), x)
    ELSE <<Head(s)>> \o RemoveAll(Tail(s), x)

Range(s) == {s[i] : i \in 1..Len(s)}

-----------------------------------------------------------------------------
(* compareDecks / removeFromDeck *)

RECURSIVE CompareLoop(_, _)
CompareLoop(deck1, deck2) ==
    IF deck1 = <<>> THEN deck2
    ELSE LET index == IndexOf(deck2, Head(deck1))
         IN  CompareLoop(Tail(deck1),
                         IF index = 0 THEN deck2 ELSE RemoveAt(deck2, index))

compareDecksNoLengthCheck(deck1Arr, deck2Arr) ==
    CompareLoop(deck1Arr, deck2Arr) = <<>>

compareDecks(deck1Arr, deck2Arr) ==
    IF Len(deck1Arr) # Len(deck2Arr) THEN FALSE
    ELSE CompareLoop(deck1Arr, deck2Arr) = <<>>

\* a loop that ends at the first item that matches nothing
RECURSIVE RemoveLoopStopAtMiss(_, _, _)
RemoveLoopStopAtMiss(removeItems, deckArr, removed) ==
    IF removeItems = <<>> THEN [deck |-> deckArr, removed |-> removed]
    ELSE LET rest == RemoveAll(deckArr, Head(removeItems))
         IN  IF rest = deckArr THEN [deck |-> deckArr, removed |-> removed]
             ELSE RemoveLoopStopAtMiss(Tail(removeItems), rest,
                                       removed + (Len(deckArr) - Len(rest)))

\* removeFromDeck: the deck after the removals and the number of removed items
RECURSIVE RemoveLoop(_, _, _)
RemoveLoop(removeItems, deckArr, removed) ==
    IF removeItems = <<>> THEN [deck |-> deckArr, removed |-> removed]
    ELSE LET rest == RemoveAll(deckArr, Head(removeItems))
         IN  RemoveLoop(Tail(removeItems), rest,
                        removed + (Len(deckArr) - Len(rest)))

removeFromDeckUnchecked(removeItems, deckArr) ==
    [ok |-> TRUE, deck |-> RemoveLoop(removeItems, deckArr, 0).deck]

removeFromDeck(removeItems, deckArr) ==
    LET r == RemoveLoop(removeItems, deckArr, 0)
    IN  [ok |-> (r.removed = Len(removeItems)), deck |-> r.deck]

-----------------------------------------------------------------------------
(* Card registry: the face of a mapping (CypherPokerCard properties) *)

SuitNames == <<"spades", "hearts", "diamonds", "clubs">>
CardSuit(m) == SuitNames[(m % 4) + 1]
CardValue(m) == ((m \div 4) % 13) + 1
CardHighValue(m) == IF CardValue(m) = 1 THEN 14 ELSE CardValue(m)

\* getMappedCard: the card of the captured face-up deck with this mapping.
\* A card is identified by its mapping; NoCard stands for null.
NoCard == -1
getMappedCardAny(mapped, mapping) == mapping
getMappedCard(mapped, mapping) ==
    IF IndexOf(mapped, mapping) = 0 THEN NoCard ELSE mapping

-----------------------------------------------------------------------------
(* Hand scoring: straightType, getCardSum, scoreHand *)

\* A score is a JavaScript Number, exact far beyond the 32 bits of a model
\* integer (a Royal Flush scores 60 * 1000000000). The model keeps it exactly,
\* as millions and units: the Number millions * 1000000 + units with
\* 0 <= units < 1000000.
Million == 1000000
Number(millions, units) ==
    [millions |-> millions + (units \div Million), units |-> units % Million]
Product(factor, multiplier) ==
    Number(factor * (multiplier \div Million), factor * (multiplier % Million))
Sum(a, b) == Number(a.millions + b.millions, a.units + b.units)
Greater(a, b) ==
    \/ a.millions > b.millions
    \/ (a.millions = b.millions) /\ (a.units > b.units)
NotScored == Number(0, -1)

\* a scorer without the test for the ace above the king
straightTypeNoHighAce(cardValues) ==
    IF Len(cardValues) < 5 THEN 0
    ELSE LET lows == {c \in 1..9 :
                        compareDecks(cardValues, <<c, c + 1, c + 2, c + 3, c + 4>>)}
         IN  IF lows # {} THEN CHOOSE c \in lows : \A d \in lows : c <= d
             ELSE 0

\* a scorer that finds no straight
straightTypeNone(cardValues) == 0
straightType(cardValues) ==
    IF Len(cardValues) < 5 THEN 0
    ELSE LET lows == {c \in 1..9 :
                        compareDecks(cardValues, <<c, c + 1, c + 2, c + 3, c + 4>>)}
         IN  IF lows # {} THEN CHOOSE c \in lows : \A d \in lows : c <= d
             ELSE IF compareDecks(cardValues, <<10, 11, 12, 13, 1>>) THEN 10
             ELSE 0

\* a sum that counts the ace high whatever is asked
RECURSIVE getCardSumHigh(_, _)
getCardSumHigh(cards, high) ==
    IF cards = <<>> THEN 0
    ELSE CardHighValue(Head(cards)) + getCardSumHigh(Tail(cards), high)

RECURSIVE getCardSum(_, _)
getCardSum(cards, high) ==
    IF cards = <<>> THEN 0
    ELSE (IF high THEN CardHighValue(Head(cards)) ELSE CardValue(Head(cards)))
         + getCardSum(Tail(cards), high)

\* the cards of hand with the given value, in hand order (valueGroups[value])
RECURSIVE ValueGroup(_, _)
ValueGroup(hand, value) ==
    IF hand = <<>> THEN <<>>
    ELSE (IF CardValue(Head(hand)) = value THEN <<Head(hand)>> ELSE <<>>)
         \o ValueGroup(Tail(hand), value)

\* Object.entries(valueGroups): integer keys enumerate in ascending order
RECURSIVE ValueGroupsFrom(_, _)
ValueGroupsFrom(hand, value) ==
    IF value > 13 THEN <<>>
    ELSE (IF ValueGroup(hand, value) = <<>> THEN <<>>
          ELSE <<ValueGroup(hand, value)>>)
         \o ValueGroupsFrom(hand, value + 1)
\* the groups in the order in which their values first appear in the hand
ValueGroupsFirstSeen(hand) ==
    LET firsts == {i \in 1..Len(hand) :
                      \A j \in 1..(i - 1) : CardValue(hand[j]) # CardValue(hand[i])}
        nth(k) == CHOOSE i \in firsts : Cardinality({j \in firsts : j < i}) = k - 1
    IN  [k \in 1..Cardinality(firsts) |-> ValueGroup(hand, CardValue(hand[nth(k)]))]
ValueGroups(hand) == ValueGroupsFrom(hand, 1)

\* the valueAdjust left by a loop over the groups: the last group whose length
\* is not groupLen overwrites it
RECURSIVE KickerAdjust(_, _, _, _)
KickerAdjust(groups, groupLen, valueMultiplier, valueAdjust) ==
    IF groups = <<>> THEN valueAdjust
    ELSE LET cardSum == getCardSum(Head(groups), TRUE)
         IN  KickerAdjust(Tail(groups), groupLen, valueMultiplier,
                 IF Len(Head(groups)) # groupLen
                 THEN Sum(Product(cardSum * (-1), valueMultiplier), Number(0, cardSum))
                 ELSE valueAdjust)

RECURSIVE MaxHighValue(_, _)
MaxHighValue(hand, handValue) ==
    IF hand = <<>> THEN handValue
    ELSE MaxHighValue(Tail(hand),
             IF handValue < CardHighValue(Head(hand))
             THEN CardHighValue(Head(hand)) ELSE handValue)

HasGroupOfLen(groups, n) == \E i \in 1..Len(groups) : Len(groups[i]) = n

\* scoreHand: the name, multiplier, adjustment and score the hand gets
scoreHand(hand) ==
    LET valueGroups == ValueGroups(hand)
        flush == (Cardinality({CardSuit(hand[i]) : i \in 1..Len(hand)}) = 1)
                 /\ (Len(hand) = 5)
        straightVal == straightType([i \in 1..Len(hand) |-> CardValue(hand[i])])
        royalflush == (straightVal = 10) /\ flush
        straight == straightVal > 0
        n == Len(valueGroups)
        class ==
            IF royalflush THEN
                [name |-> "Royal Flush", mult |-> 1000000000, adj |-> Number(0, 0), high |-> TRUE]
            ELSE IF straight /\ flush THEN
                [name |-> "Straight Flush", mult |-> 100000000, adj |-> Number(0, 0),
                 high |-> (straightVal # 1)]
            ELSE IF (n = 2) /\ (Len(hand) >= 5) THEN
                LET four == HasGroupOfLen(valueGroups, 4)
                    three == HasGroupOfLen(valueGroups, 3)
                    adj4 == IF four THEN KickerAdjust(valueGroups, 4, 10000000, Number(0, 0))
                            ELSE Number(0, 0)
                IN  [name |-> IF three THEN "Full House"
                              ELSE IF four THEN "Four of a Kind" ELSE "undefined",
                     mult |-> IF three THEN 1000000 ELSE IF four THEN 10000000 ELSE 1,
                     adj |-> adj4, high |-> TRUE]
            ELSE IF flush /\ ~straight THEN
                [name |-> "Flush", mult |-> 100000, adj |-> Number(0, 0), high |-> TRUE]
            ELSE IF straight /\ ~flush THEN
                [name |-> "Straight", mult |-> 10000, adj |-> Number(0, 0),
                 high |-> (straightVal # 1)]
            ELSE IF n = 3 THEN
                IF HasGroupOfLen(valueGroups, 3)
                THEN [name |-> "Three of a Kind", mult |-> 1000,
                      adj |-> KickerAdjust(valueGroups, 3, 1000, Number(0, 0)), high |-> TRUE]
                ELSE [name |-> "Two Pairs", mult |-> 100,
                      adj |-> KickerAdjust(valueGroups, 2, 100, Number(0, 0)), high |-> TRUE]
            ELSE IF (n = 4) \/ (n = 1) THEN
                [name |-> "One Pair", mult |-> 15,
                 adj |-> KickerAdjust(valueGroups, 2, 15, Number(0, 0)), high |-> TRUE]
            ELSE [name |-> "High Card", mult |-> 1, adj |-> Number(0, 0), high |-> TRUE]
        handValue == IF class.mult > 1 THEN getCardSum(hand, class.high)
                     ELSE MaxHighValue(hand, 0)
    IN  [hand |-> hand, name |-> class.name,
         score |-> Sum(Product(handValue, class.mult), class.adj)]

-----------------------------------------------------------------------------
(* createCardPermutations *)

\* the index rows of createCardPermutations (0-based, as in the source)
Perms6 == << <<1,2,3,4,5>>, <<0,2,3,4,5>>, <<1,0,3,4,5>>, <<1,2,0,4,5>>,
             <<1,2,3,0,5>>, <<1,2,3,4,0>> >>
Perms7 == << <<2,3,4,5,6>>,
             <<0,3,4,5,6>>, <<2,0,4,5,6>>, <<2,3,0,5,6>>, <<2,3,4,0,6>>, <<2,3,4,5,0>>,
             <<1,3,4,5,6>>, <<2,1,4,5,6>>, <<2,3,1,5,6>>, <<2,3,4,1,6>>, <<2,3,4,5,1>>,
             <<0,1,4,5,6>>, <<0,3,1,5,6>>, <<0,3,4,1,6>>, <<0,3,4,5,1>>,
             <<2,0,1,5,6>>, <<2,0,4,1,6>>, <<2,0,4,5,1>>,
             <<2,3,0,1,6>>, <<2,3,0,5,1>>, <<2,3,4,0,1>> >>

\* an enumeration for seven cards whose last row repeats the first
createCardPermutationsRepeat(cardsArr) ==
    IF Len(cardsArr) <= 5 THEN <<cardsArr>>
    ELSE LET rows == IF Len(cardsArr) = 6 THEN Perms6
                     ELSE [Perms7 EXCEPT ![21] = Perms7[1]]
         IN  [r \in 1..Len(rows) |-> [i \in 1..5 |-> cardsArr[rows[r][i] + 1]]]

createCardPermutations(cardsArr) ==
    IF Len(cardsArr) <= 5 THEN <<cardsArr>>
    ELSE LET rows == IF Len(cardsArr) = 6 THEN Perms6 ELSE Perms7
         IN  [r \in 1..Len(rows) |-> [i \in 1..5 |-> cardsArr[rows[r][i] + 1]]]

-----------------------------------------------------------------------------
(* scoreHands *)

\* a first loop that keeps the pairs collected so far when a better hand comes
RankedKeepAll(w, pid, handObj) ==
    LET entry == [pid |-> pid, hand |-> handObj.hand, name |-> handObj.name,
                  score |-> handObj.score]
    IN  IF Greater(w.highestScore, handObj.score) THEN w
        ELSE [highestScore |-> handObj.score, winners |-> Append(w.winners, entry)]
\* first loop: every permutation of every non-folded player of cardsObj.private
\* (keys in insertion order) is scored; w holds highestScore and the winning
\* (player, hand) pairs collected so far
Ranked(w, pid, handObj) ==
    LET entry == [pid |-> pid, hand |-> handObj.hand, name |-> handObj.name,
                  score |-> handObj.score]
    IN  IF handObj.score = w.highestScore
        THEN [w EXCEPT !.winners = Append(@, entry)]
        ELSE IF Greater(handObj.score, w.highestScore)
        THEN [highestScore |-> handObj.score, winners |-> <<entry>>]
        ELSE w

RECURSIVE ScorePerms(_, _, _)
ScorePerms(pid, perms, w) ==
    IF perms = <<>> THEN w
    ELSE ScorePerms(pid, Tail(perms), Ranked(w, pid, scoreHand(Head(perms))))

RECURSIVE ScorePlayers(_, _, _, _, _)
ScorePlayers(keys, private, public, foldedPIDs, w) ==
    IF keys = <<>> THEN w
    ELSE LET pid == Head(keys)
         IN  ScorePlayers(Tail(keys), private, public, foldedPIDs,
                 IF pid \in foldedPIDs THEN w
                 ELSE ScorePerms(pid, createCardPermutations(private[pid] \o public), w))

\* the hole-card score of a candidate: 10 * higher highvalue + lower highvalue
HoleCardScore(privateCards) ==
    LET h1 == CardHighValue(privateCards[1])
        h2 == CardHighValue(privateCards[2])
    IN  IF h1 > h2 THEN Number(0, (h1 * 10) + h2) ELSE Number(0, (h2 * 10) + h1)

\* second loop: the candidates are re-ranked by their hole cards
RECURSIVE TieBreak(_, _, _)
TieBreak(winners, private, w) ==
    IF winners = <<>> THEN w
    ELSE LET currentScore == HoleCardScore(private[Head(winners).pid])
             entry == [Head(winners) EXCEPT !.score = currentScore]
         IN  TieBreak(Tail(winners), private,
                 IF Greater(currentScore, w.highestScore)
                 THEN [highestScore |-> currentScore, winners |-> <<entry>>]
                 ELSE IF currentScore = w.highestScore
                 THEN [w EXCEPT !.winners = Append(@, entry)]
                 ELSE w)

\* no duplicate is eliminated
DedupeNone(winners, kept) == winners
\* third loop: a player is kept once, with the first of its winning hands
RECURSIVE Dedupe(_, _)
Dedupe(winners, kept) ==
    IF winners = <<>> THEN kept
    ELSE Dedupe(Tail(winners),
             IF \E i \in 1..Len(kept) : kept[i].pid = Head(winners).pid
             THEN kept ELSE Append(kept, Head(winners)))

\* the candidates after the second loop, which runs if more than one is left
Reranked(first, private) ==
    IF Len(first.winners) > 1
    THEN TieBreak(first.winners, private,
                  [highestScore |-> Number(0, 0), winners |-> <<>>])
    ELSE first

\* reading the hole cards of a candidate that has fewer than two of them raises
\* a TypeError
TieBreakThrows(first, private) ==
    /\ Len(first.winners) > 1
    /\ \E i \in 1..Len(first.winners) : Len(private[first.winners[i].pid]) < 2

Winners(threw, final) ==
    [threw |-> threw,
     winningPlayers |-> [i \in 1..Len(final) |-> final[i].pid],
     winningHands |-> [i \in 1..Len(final) |->
                          [hand |-> final[i].hand, score |-> final[i].score]]]

ScoredFrom(first, private) ==
    IF TieBreakThrows(first, private) THEN Winners(TRUE, <<>>)
    ELSE Winners(FALSE, Dedupe(Reranked(first, private).winners, <<>>))

\* scoreHands on cardsObj = (keys of private in insertion order, private, public).
\* threw: the TypeError of the second loop leaves the handler before `scored`
\* is dispatched.
scoreHands(keys, private, public, foldedPIDs) ==
    ScoredFrom(ScorePlayers(keys, private, public, foldedPIDs,
                            [highestScore |-> NotScored, winners |-> <<>>]), private)

-----------------------------------------------------------------------------
(* The analysis object and the errors of analyzeCards *)

\* null
NoError == [code |-> -1, kind |-> "null", index |-> 0,
            fromPID |-> "", sourcePID |-> ""]

\* new Error(...) with error.code; kind abbreviates the message, index is the
\* deck stage or the deal index the message names
Error(code, kind, index, fromPID, sourcePID) ==
    [code |-> code, kind |-> kind, index |-> index,
     fromPID |-> fromPID, sourcePID |-> sourcePID]

EmptyMap == [p \in {} |-> <<>>]

\* the object the `analysis` getter creates
NewAnalysis == [private |-> EmptyMap, public |-> <<>>, complete |-> FALSE,
                error |-> NoError, winningPlayers |-> <<>>, winningHands |-> <<>>]

\* this._analysis.error = error; this._analysis.complete = true; throw (error)
RejectedKeepIncomplete(an, error) == [an EXCEPT !.error = error]
Rejected(an, error) == [an EXCEPT !.error = error, !.complete = TRUE]

-----------------------------------------------------------------------------
(* analyzeCards: the code between two awaits is one synchronous run.        *)
(* The activation record a holds the local variables of the suspended call. *)

IdleCall ==
    [pc |-> "idle", count |-> 0, previousDeck |-> <<>>, currentDeck |-> <<>>,
     encryptedDeck |-> <<>>, results |-> <<>>, keys |-> <<>>, dealer |-> 0,
     privKeys |-> <<>>, private |-> EmptyMap, public |-> <<>>, publicBy |-> <<>>,
     error |-> NoError, gateSize |-> 0, handler |-> "idle"]

Throw(a, error) == [a EXCEPT !.pc = "thrown", !.error = error]

\* keychain[keychain.length-1] of a player
LastKeypairFirst(kc, pid) == kc[pid][1]
LastKeypair(kc, pid) == Last(kc[pid])

\* push the resolved cards of a final decryption, stopping at the first result
\* that does not map to a card of the face-up deck
RECURSIVE PlaceCards(_, _, _, _, _)
PlaceCards(a, results, sourcePID, fromPID, isPrivate) ==
    IF results = <<>> THEN a
    ELSE LET card == getMappedCard(mappedDeck, Head(results))
         IN  IF card = NoCard
             THEN Throw(a, Error(2, "FinalDecryption", a.count, fromPID, sourcePID))
             ELSE PlaceCards(
                      IF isPrivate
                      THEN [a EXCEPT !.private[sourcePID] = Append(@, card)]
                      ELSE [a EXCEPT !.public = Append(@, card),
                                     !.publicBy = Append(@, sourcePID)],
                      Tail(results), sourcePID, fromPID, isPrivate)

\* encryptedDeck, previousDeck and (once a deck stage has run) currentDeck are
\* one array behind the deck loop: what removeFromDeck splices out of
\* encryptedDeck is gone from all of them
Spliced(a, deckArr) ==
    [a EXCEPT !.encryptedDeck = deckArr, !.previousDeck = deckArr,
              !.currentDeck = IF a.currentDeck = a.encryptedDeck THEN deckArr
                              ELSE @]

\* a pool check made for the first dealer only
SelectFromPoolFirstDealer(a, cards, fromPID, sourcePID) ==
    LET r == removeFromDeck(cards, a.encryptedDeck)
    IN  IF a.dealer > 1 THEN a
        ELSE IF ~r.ok
        THEN Throw(Spliced(a, r.deck),
                   Error(2, "Duplicates", a.count, fromPID, sourcePID))
        ELSE Spliced(a, r.deck)

\* removeFromDeck(cards, encryptedDeck) of a select entry: the cards that
\* were found are spliced out of encryptedDeck also when false is returned
SelectFromPool(a, cards, fromPID, sourcePID) ==
    LET r == removeFromDeck(cards, a.encryptedDeck)
    IN  IF ~r.ok
        THEN Throw(Spliced(a, r.deck),
                   Error(2, "Duplicates", a.count, fromPID, sourcePID))
        ELSE Spliced(a, r.deck)

\* the test of a select entry that follows a select entry (count > 0)
SequentialSelectNever(count) == FALSE
SequentialSelect(count) == count > 0

\* the deal loops, from the test of the inner loop for entry a.count of dealer
\* a.dealer up to the next await, return or throw
RECURSIVE DealLoop(_, _)
DealLoop(a, kc) ==
    IF a.dealer > Len(a.keys) THEN [a EXCEPT !.pc = "returned"]
    ELSE
    LET sourcePID == a.keys[a.dealer]
        dealArray == deals[sourcePID]
    IN  IF a.count >= Len(dealArray)
        THEN DealLoop([a EXCEPT !.dealer = @ + 1, !.count = 0], kc)
        ELSE
        LET currentDeal == dealArray[a.count + 1]
            previousType == IF a.count > 0 THEN dealArray[a.count].type ELSE "select"
            type == currentDeal.type
            b == IF sourcePID \in DOMAIN a.private THEN a
                 ELSE [a EXCEPT !.private = @ @@ (sourcePID :> <<>>),
                                !.privKeys = Append(@, sourcePID)]
        IN  IF previousType = "select" /\ type = "select" THEN
                IF SequentialSelect(a.count)
                THEN Throw(b, Error(2, "MultipleSelect", a.count, currentDeal.fromPID, sourcePID))
                ELSE LET c == SelectFromPool(b, currentDeal.cards, currentDeal.fromPID, sourcePID)
                     IN  IF c.pc = "thrown" THEN c
                         ELSE DealLoop([c EXCEPT !.count = @ + 1], kc)
            ELSE IF previousType = "select" /\ type = "decrypt"
                    /\ a.count < Len(dealArray) - 1 THEN
                DealLoop([b EXCEPT !.count = @ + 1], kc)
            ELSE IF previousType = "decrypt" /\ type = "select" THEN
                [b EXCEPT !.pc = "finalSelect",
                          !.results = DecryptAll(dealArray[a.count].cards,
                                                 LastKeypair(kc, sourcePID))]
            ELSE IF a.count = Len(dealArray) - 1 THEN
                [b EXCEPT !.pc = "finalLast",
                          !.results = DecryptAll(currentDeal.cards,
                                                 LastKeypair(kc, sourcePID))]
            ELSE
                [b EXCEPT !.pc = "compare",
                          !.results = DecryptAll(dealArray[a.count].cards,
                                                 LastKeypair(kc, currentDeal.fromPID))]

\* the deck loop, from its test for stage a.count up to the next await
DeckLoop(a, kc) ==
    IF a.count < Len(deck)
    THEN [a EXCEPT !.pc = "deck",
                   !.currentDeck = deck[a.count + 1].cards,
                   !.results = EncryptAll(a.previousDeck,
                                          LastKeypair(kc, deck[a.count + 1].fromPID))]
    ELSE DealLoop([a EXCEPT !.encryptedDeck = a.previousDeck, !.keys = dealKeys,
                            !.dealer = 1, !.count = 0], kc)

\* the comparison of a deck stage with the replayed encryption
DeckStageAccept(a) == TRUE
DeckStage(a) == compareDecks(a.currentDeck, a.results)

\* the comparison of an intermediate decryption with the replayed one
IntermediateAccept(a, cards) == TRUE
Intermediate(a, cards) == compareDecks(a.results, cards)

\* the run from the await the call is suspended at to the next one
Resume(a, kc) ==
    IF a.pc = "deck" THEN
        IF ~DeckStage(a)
        THEN Throw(a, Error(1, "DeckEncryption", a.count, deck[a.count + 1].fromPID, ""))
        ELSE DeckLoop([a EXCEPT !.previousDeck = a.currentDeck, !.count = @ + 1], kc)
    ELSE
    LET sourcePID == a.keys[a.dealer]
        dealArray == deals[sourcePID]
        currentDeal == dealArray[a.count + 1]
    IN  IF a.pc = "finalSelect" THEN
            LET b == PlaceCards(a, a.results, sourcePID, currentDeal.fromPID,
                                dealArray[a.count].private)
                c == IF b.pc = "thrown" THEN b
                     ELSE SelectFromPool(b, currentDeal.cards, currentDeal.fromPID, sourcePID)
            IN  IF c.pc = "thrown" THEN c
                ELSE DealLoop([c EXCEPT !.count = @ + 1], kc)
        ELSE IF a.pc = "finalLast" THEN
            LET b == PlaceCards(a, a.results, sourcePID, currentDeal.fromPID,
                                currentDeal.private)
            IN  IF b.pc = "thrown" THEN b
                ELSE DealLoop([b EXCEPT !.count = @ + 1], kc)
        ELSE \* "compare"
            IF ~Intermediate(a, currentDeal.cards)
            THEN Throw(a, Error(2, "PreviousRound", a.count, currentDeal.fromPID, sourcePID))
            ELSE DealLoop([a EXCEPT !.count = @ + 1], kc)

\* analyzeCards from its entry up to the first await (the deck is not empty)
RECURSIVE DealCount(_)
DealCount(keys) ==
    IF keys = <<>> THEN 0 ELSE Len(deals[Head(keys)]) + DealCount(Tail(keys))
TranscriptSize == Len(deck) + DealCount(dealKeys)
analyzeCards(kc) ==
    DeckLoop([IdleCall EXCEPT !.previousDeck = deck[1].cards, !.count = 1,
                              !.gateSize = TranscriptSize], kc)

-----------------------------------------------------------------------------
(* Capture handlers *)

Dealer == Roster[1]

\* player.keychain of the players of the game once the hand is over: the
\* game knows its own player's keychain, the others' arrive with
\* "gameplayerkeychain"
RosterKeychain(p) == IF p = OwnPID THEN PlayerKeychain(p) ELSE <<>>

\* refreshPlayers: this._players holds copies of the game's players, made at
\* the first use of the `players` getter and again by onGameAnalyze only. The
\* first copies are made during the hand, either before the own player has a
\* key pair in its keychain or after
RefreshedPlayers == [p \in Players |-> RosterKeychain(p)]
EarlyPlayers == {[p \in Players |-> <<>>], RefreshedPlayers}

\* storeDeal(dealingPID, fromPID, cards, isPrivate, isDecryption)
storeDealAsSelect(dealingPID, fromPID, cards, isPrivate, isDecryption) ==
    LET infoObj == [fromPID |-> fromPID, type |-> "select",
                    private |-> isPrivate, cards |-> cards]
    IN  /\ deals' = IF dealingPID \in DOMAIN deals
                    THEN [deals EXCEPT ![dealingPID] = Append(@, infoObj)]
                    ELSE deals @@ (dealingPID :> <<infoObj>>)
        /\ dealKeys' = IF dealingPID \in DOMAIN deals THEN dealKeys
                       ELSE Append(dealKeys, dealingPID)
storeDeal(dealingPID, fromPID, cards, isPrivate, isDecryption) ==
    LET infoObj == [fromPID |-> fromPID,
                    type |-> IF isDecryption THEN "decrypt" ELSE "select",
                    private |-> isPrivate, cards |-> cards]
    IN  /\ deals' = IF dealingPID \in DOMAIN deals
                    THEN [deals EXCEPT ![dealingPID] = Append(@, infoObj)]
                    ELSE deals @@ (dealingPID :> <<infoObj>>)
        /\ dealKeys' = IF dealingPID \in DOMAIN deals THEN dealKeys
                       ELSE Append(dealKeys, dealingPID)

\* a capture that keeps one snapshot for each player
onEncryptCardsOncePerPlayer(player, selected) ==
    /\ listening
    /\ LET first == IF deck = <<>>
                    THEN <<[fromPID |-> Dealer, cards |-> FaceUpDeck]>> ELSE <<>>
           seen == \E i \in 2..Len(deck) : deck[i].fromPID = player
       IN  deck' = IF seen THEN [deck EXCEPT ![Len(deck)].cards = selected]
                   ELSE deck \o first \o <<[fromPID |-> player, cards |-> selected]>>
    /\ mappedDeck' = IF deck = <<>> THEN mappedDeck \o FaceUpDeck ELSE mappedDeck
    /\ UNCHANGED <<listening, kcListening, timer, folded, deals, dealKeys,
                   keychains, analysis, events, ac>>

onEncryptCards(player, selected) ==
    /\ listening
    /\ LET first == IF deck = <<>>
                    THEN <<[fromPID |-> Dealer, cards |-> FaceUpDeck]>> ELSE <<>>
       IN  deck' = deck \o first \o <<[fromPID |-> player, cards |-> selected]>>
    /\ mappedDeck' = IF deck = <<>> THEN mappedDeck \o FaceUpDeck ELSE mappedDeck
    /\ UNCHANGED <<listening, kcListening, timer, folded, deals, dealKeys,
                   keychains, analysis, events, ac>>

onSelectCards(selected, isPrivate) ==
    /\ listening
    /\ storeDeal(OwnPID, OwnPID, selected, isPrivate, FALSE)
    /\ UNCHANGED <<listening, kcListening, timer, folded, deck, mappedDeck,
                   keychains, analysis, events, ac>>

onGameDecrypt(sourcePID, selected, isPrivate) ==
    /\ listening
    /\ storeDeal(sourcePID, OwnPID, selected, isPrivate, TRUE)
    /\ UNCHANGED <<listening, kcListening, timer, folded, deck, mappedDeck,
                   keychains, analysis, events, ac>>

\* hasCards: the payload carries a final `cards` array
onGameDealMessage(from, sourcePID, selected, isPrivate, hasCards) ==
    /\ listening
    /\ IF hasCards
       THEN UNCHANGED <<deals, dealKeys>>
       ELSE storeDeal(sourcePID, from, selected, isPrivate, sourcePID # from)
    /\ UNCHANGED <<listening, kcListening, timer, folded, deck, mappedDeck,
                   keychains, analysis, events, ac>>

-----------------------------------------------------------------------------
(* The keychain-commit gate *)

\* the allKeychainsCommitted getter: it stores a copy of player.keychain for
\* every player it reaches that has no stored keychain, and stops at the first
\* player whose stored keychain is empty
RECURSIVE CommittedFrom(_, _)
CommittedFrom(i, kc) ==
    IF i > Len(Roster) THEN [committed |-> TRUE, keychains |-> kc]
    ELSE LET p == Roster[i]
             kc1 == IF p \in DOMAIN kc THEN kc ELSE kc @@ (p :> players[p])
         IN  IF Len(kc1[p]) = 0 THEN [committed |-> FALSE, keychains |-> kc1]
             ELSE CommittedFrom(i + 1, kc1)
allKeychainsCommitted(kc) == CommittedFrom(1, kc)

\* a read of the property from outside onPlayerKeychain: the keychains the
\* getter stores stay stored
getAllKeychainsCommitted ==
    /\ keychains' = allKeychainsCommitted(keychains).keychains
    /\ UNCHANGED <<listening, kcListening, timer, folded, deck, mappedDeck,
                   deals, dealKeys, analysis, events, ac>>

\* refreshPlayers: hasFolded of the copies as the game has it now
FoldedChoices == {{}, {Roster[Len(Roster)]}}

onGameAnalyze(nowFolded) ==
    /\ listening
    /\ folded' = nowFolded
    /\ players' = RefreshedPlayers
    /\ keychains' = IF OwnPID \in DOMAIN keychains
                    THEN [keychains EXCEPT ![OwnPID] = RosterKeychain(OwnPID)]
                    ELSE keychains @@ (OwnPID :> RosterKeychain(OwnPID))
    /\ listening' = FALSE
    /\ timer' = "armed"
    /\ UNCHANGED <<kcListening, deck, mappedDeck, deals, dealKeys, analysis,
                   events, ac>>

\* the handle setTimeout returns, and the delay of the timer
TimerHandle == 1
DefaultTimeout == 10000

\* the setter of keychainCommitTimeout writes this._keychainCommitTimeout,
\* the field onGameAnalyze keeps the handle of the timer in: the timer runs
\* on, clearTimeout is given the value that was set, which clears the timer
\* only if it is the handle. While no timer runs the setter changes no more
\* than the delay.
setKeychainCommitTimeout(KRSTSet) ==
    /\ timer \in {"armed", "lost"}
    /\ timer' = IF KRSTSet = TimerHandle THEN "armed" ELSE "lost"
    /\ UNCHANGED <<listening, kcListening, folded, deck, mappedDeck, deals,
                   dealKeys, keychains, analysis, events, ac>>

onKCSTimeout ==
    /\ timer \in {"armed", "lost"}
    /\ timer' = "fired"
    /\ analysis' = [analysis EXCEPT !.complete = TRUE]
    /\ UNCHANGED <<listening, kcListening, folded, deck, mappedDeck, deals,
                   dealKeys, keychains, events, ac>>

\* whether "gameplayerkeychain" is still listened to once the gate has fired
KeychainListenerKept == TRUE
KeychainListenerAfterGate == FALSE

\* this._analysis = cardsObj, and what scoreHands has written to it when it
\* returns or raises; `complete` is set by the handler later
ScoredAnalysis(a, scored) ==
    [private |-> a.private, public |-> a.public,
     complete |-> FALSE, error |-> NoError,
     winningPlayers |-> scored.winningPlayers,
     winningHands |-> scored.winningHands]

Suspended == ac.pc \in {"deck", "finalSelect", "finalLast", "compare"}
\* a continuation of onPlayerKeychain is to run: analyzeCards has returned
\* (await of line 618) or scoreHands has (await of line 628)
Continuing ==
    \/ ac.handler = "analyzeCards" /\ ac.pc = "returned"
    \/ ac.handler = "scoreHands"

\* analyzeCards settles in a run of its own. When it has thrown, the error is
\* in this._analysis already and the catch of the handler changes nothing.
Awaited(a) ==
    [a EXCEPT !.handler = IF a.pc = "thrown" THEN "done" ELSE "analyzeCards"]

\* onPlayerKeychain up to `await this.analyzeCards()`: analyzeCards has run up
\* to its first await, or has returned null on an empty deck
onPlayerKeychain(player, keychain) ==
    /\ kcListening
    /\ LET stored == IF player \in DOMAIN keychains
                     THEN [keychains EXCEPT ![player] = keychain]
                     ELSE keychains @@ (player :> keychain)
           r == allKeychainsCommitted(stored)
           a == IF deck = <<>> THEN [IdleCall EXCEPT !.pc = "returned"]
                ELSE analyzeCards(r.keychains)
       IN  /\ keychains' = r.keychains
           /\ IF r.committed
              THEN /\ kcListening' = KeychainListenerAfterGate
                   /\ timer' = IF timer = "armed" THEN "cleared" ELSE timer
                   /\ ac' = Awaited(a)
                   /\ events' = Append(events, "analyzing")
                   /\ analysis' = IF a.pc = "thrown" THEN Rejected(analysis, a.error)
                                  ELSE analysis
              ELSE UNCHANGED <<kcListening, timer, ac, events, analysis>>
    /\ UNCHANGED <<listening, folded, deck, mappedDeck, deals, dealKeys>>

\* the crypto results of the awaited batch arrive: analyzeCards runs on to its
\* next await, returns or throws
resumeAnalyzeCards ==
    /\ Suspended
    /\ LET a == Resume(ac, keychains)
       IN  /\ ac' = Awaited(a)
           /\ analysis' = IF a.pc = "thrown" THEN Rejected(analysis, a.error)
                          ELSE analysis
    /\ UNCHANGED <<listening, kcListening, timer, folded, deck, mappedDeck,
                   deals, dealKeys, keychains, events>>

\* onPlayerKeychain from line 618 to `await this.scoreHands(..)`: the result
\* of analyzeCards becomes this._analysis, `analyzed` is dispatched and
\* scoreHands runs; when it raises, the handler ends there
AnalyzedWith(scored) ==
    /\ events' = Append(events, "analyzed")
    /\ analysis' = ScoredAnalysis(ac, scored)
    /\ ac' = [ac EXCEPT !.handler = IF scored.threw THEN "done" ELSE "scoreHands"]
onPlayerKeychainAnalyzed ==
    /\ ac.handler = "analyzeCards"
    /\ ac.pc = "returned"
    /\ AnalyzedWith(scoreHands(ac.privKeys, ac.private, ac.public, folded))
    /\ UNCHANGED <<listening, kcListening, timer, folded, deck, mappedDeck,
                   deals, dealKeys, keychains>>

\* onPlayerKeychain from line 628 to its end
onPlayerKeychainScored ==
    /\ ac.handler = "scoreHands"
    /\ analysis' = [analysis EXCEPT !.complete = TRUE, !.error = NoError]
    /\ events' = Append(events, "scored")
    /\ ac' = [ac EXCEPT !.handler = "done"]
    /\ UNCHANGED <<listening, kcListening, timer, folded, deck, mappedDeck,
                   deals, dealKeys, keychains>>

-----------------------------------------------------------------------------
(* The players: what an honest player sends next, and how one may deviate *)

Reverse(s) == [i \in 1..Len(s) |-> s[Len(s) + 1 - i]]

\* the least value that is not in s
Foreign(s) == CHOOSE v \in Values \ Range(s) : \A w \in Values \ Range(s) : v <= w

Senders == {deck[i].fromPID : i \in 2..Len(deck)}
PrevCards == IF deck = <<>> THEN FaceUpDeck ELSE Last(deck).cards
\* a player encrypts every card of the previous snapshot and shuffles
HonestSnapshot(p) == Reverse(EncryptAll(PrevCards, Last(PlayerKeychain(p))))
TamperedSnapshots(p) ==
    LET h == HonestSnapshot(p)
    IN  {[h EXCEPT ![1] = Foreign(h)], [h EXCEPT ![1] = h[2]], Append(h, Foreign(h))}

EntriesOf(S) == IF S \in DOMAIN deals THEN deals[S] ELSE <<>>
Pool == Last(deck).cards
SelectedCards ==
    UNION {Range(deals[S][i].cards) :
             <<S, i>> \in {<<T, j>> \in (DOMAIN deals) \X (1..MaxDeals) :
                             j <= Len(deals[T]) /\ deals[T][j].type = "select"}}
Unselected == SelectSeq(Pool, LAMBDA c : c \notin SelectedCards)

\* the senders of the decrypt entries at the end of a deal list
RECURSIVE TrailingDecryptors(_)
TrailingDecryptors(list) ==
    IF list = <<>> \/ Last(list).type = "select" THEN <<>>
    ELSE Append(TrailingDecryptors(SubSeq(list, 1, Len(list) - 1)), Last(list).fromPID)

\* the last deal of S was selected by S and not yet decrypted by q
OpenFor(q, S) ==
    LET list == EntriesOf(S)
        t == TrailingDecryptors(list)
    IN  /\ q # S
        /\ Len(list) > Len(t)
        /\ \A i \in 1..Len(t) : t[i] # q
\* the last deal of S has been decrypted by every other player
ChainComplete(S) ==
    LET list == EntriesOf(S)
        t == TrailingDecryptors(list)
    IN  /\ Len(list) > Len(t)
        /\ Range(t) = Players \ {S}

DealPhase == /\ deck # <<>>
             /\ (Senders = Players \/ Len(deck) > MaxSnapshots)
             /\ DealCount(dealKeys) < MaxDeals

\* hole cards are selected first, two at once; the dealer then selects the
\* community cards one by one
HonestSelections(S) ==
    LET u == Unselected
    IN  IF EntriesOf(S) = <<>>
        THEN IF Len(u) < 2 THEN {}
             ELSE {<<u[1], u[2]>>, <<u[Len(u)], u[Len(u) - 1]>>}
        ELSE IF ChainComplete(S) /\ S = Dealer /\ Len(u) >= 1 THEN {<<u[1]>>}
        ELSE {}
BadSelections ==
    {<<Pool[1], Pool[1]>>, <<Pool[1], Foreign(Pool)>>}
    \cup {deals[S][1].cards : S \in {T \in DOMAIN deals : deals[T][1].type = "select"}}

HonestDecryption(q, S) ==
    DecryptAll(Last(EntriesOf(S)).cards, Last(PlayerKeychain(q)))
Bump(s) == [s EXCEPT ![1] = (s[1] + 1) % Modulus]

\* the event a deal message of `from` about the deal of sourcePID arrives as
Selection(S, cards, isPrivate) ==
    IF S = OwnPID THEN onSelectCards(cards, isPrivate)
    ELSE onGameDealMessage(S, S, cards, isPrivate, FALSE)
Decryption(q, S, cards, isPrivate) ==
    IF q = OwnPID THEN onGameDecrypt(S, cards, isPrivate)
    ELSE onGameDealMessage(q, S, cards, isPrivate, FALSE)

Deviate == deviations < MaxDeviations /\ deviations' = deviations + 1

-----------------------------------------------------------------------------
(* Specification *)

\* no array function is being called
NoArrays == [called |-> "none"]

Init ==
    /\ listening = TRUE
    /\ kcListening = TRUE
    /\ timer = "idle"
    /\ folded = {}
    /\ players \in EarlyPlayers
    /\ deck = <<>>
    /\ mappedDeck = <<>>
    /\ deals = EmptyMap
    /\ dealKeys = <<>>
    /\ keychains = EmptyMap
    /\ analysis = NewAnalysis
    /\ events = <<>>
    /\ ac = IdleCall
    /\ deviations = 0
    /\ handObjs = <<>>
    /\ arrays = NoArrays

EncryptHonest ==
    \E p \in Players \ Senders :
        /\ Len(deck) <= MaxSnapshots
        /\ p = Roster[Cardinality(Senders) + 1]
        /\ onEncryptCards(p, HonestSnapshot(p))
        /\ UNCHANGED <<deviations, handObjs, arrays, players>>

EncryptDeviant ==
    \E p \in Players :
        /\ Len(deck) <= MaxSnapshots
        /\ Deviate
        /\ UNCHANGED <<handObjs, arrays, players>>
        /\ IF p \in Senders THEN onEncryptCards(p, HonestSnapshot(p))
           ELSE \E cards \in TamperedSnapshots(p) : onEncryptCards(p, cards)

SelectHonest ==
    \E S \in Players :
        /\ DealPhase
        /\ \E cards \in HonestSelections(S) : Selection(S, cards, EntriesOf(S) = <<>>)
        /\ UNCHANGED <<deviations, handObjs, arrays, players>>

SelectDeviant ==
    \E S \in Players :
        /\ DealPhase
        /\ Deviate
        /\ UNCHANGED <<handObjs, arrays, players>>
        /\ \/ /\ HonestSelections(S) # {}
              /\ \E cards \in BadSelections : Selection(S, cards, EntriesOf(S) = <<>>)
           \/ /\ EntriesOf(S) # <<>> /\ Last(EntriesOf(S)).type = "select"
              /\ Len(Unselected) >= 1
              /\ Selection(S, <<Unselected[1]>>, FALSE)

DecryptHonest ==
    \E q \in Players, S \in Players :
        /\ DealPhase
        /\ OpenFor(q, S)
        /\ Decryption(q, S, HonestDecryption(q, S), Last(EntriesOf(S)).private)
        /\ UNCHANGED <<deviations, handObjs, arrays, players>>

DecryptDeviant ==
    \E q \in Players : \E S \in Players \ {q} :
        /\ DealPhase
        /\ Deviate
        /\ UNCHANGED <<handObjs, arrays, players>>
        /\ \/ /\ OpenFor(q, S)
              /\ Decryption(q, S, Bump(HonestDecryption(q, S)), Last(EntriesOf(S)).private)
           \/ /\ EntriesOf(S) # <<>> /\ ~OpenFor(q, S)
              /\ \E cards \in {HonestDecryption(q, S), Bump(HonestDecryption(q, S))} :
                     Decryption(q, S, cards, Last(EntriesOf(S)).private)
           \/ /\ EntriesOf(S) = <<>> /\ Len(Unselected) >= 2
              /\ Decryption(q, S, DecryptAll(<<Unselected[1], Unselected[2]>>,
                                             Last(PlayerKeychain(q))), TRUE)

DealtCards ==
    \E from \in Players \ {OwnPID}, S \in Players :
        /\ DealPhase
        /\ onGameDealMessage(from, S, <<>>, FALSE, TRUE)
        /\ UNCHANGED <<deviations, handObjs, arrays, players>>

GameAnalyze ==
    \E f \in FoldedChoices : onGameAnalyze(f) /\ UNCHANGED <<deviations, handObjs, arrays>>

\* a player commits the keychain once the hand is over
KeychainHonest ==
    \E p \in Players \ {OwnPID} :
        /\ ~listening
        /\ onPlayerKeychain(p, PlayerKeychain(p))
        /\ UNCHANGED <<deviations, handObjs, arrays, players>>

\* a keychain that is not the one used, or one committed during the hand
KeychainDeviant ==
    \E p \in Players \ {OwnPID} :
        /\ Deviate
        /\ UNCHANGED <<handObjs, arrays, players>>
        /\ \E kc \in {WrongKeychain(p), <<>>} \cup
                      (IF listening THEN {PlayerKeychain(p)} ELSE {}) :
               onPlayerKeychain(p, kc)

\* the application sets the delay of the timer
SetTimeout ==
    \E KRSTSet \in {TimerHandle, DefaultTimeout} :
        setKeychainCommitTimeout(KRSTSet)
        /\ UNCHANGED <<deviations, handObjs, arrays, players>>

\* the application reads the property allKeychainsCommitted
ReadCommitted ==
    getAllKeychainsCommitted /\ UNCHANGED <<deviations, handObjs, arrays, players>>

Timeout == onKCSTimeout /\ UNCHANGED <<deviations, handObjs, arrays, players>>

CryptoResults == resumeAnalyzeCards /\ UNCHANGED <<deviations, handObjs, arrays, players>>

AnalyzeCardsReturned ==
    onPlayerKeychainAnalyzed /\ UNCHANGED <<deviations, handObjs, arrays, players>>

ScoreHandsReturned ==
    onPlayerKeychainScored /\ UNCHANGED <<deviations, handObjs, arrays, players>>

Next ==
    \/ EncryptHonest
    \/ EncryptDeviant
    \/ SelectHonest
    \/ SelectDeviant
    \/ DecryptHonest
    \/ DecryptDeviant
    \/ DealtCards
    \/ GameAnalyze
    \/ KeychainHonest
    \/ KeychainDeviant
    \/ SetTimeout
    \/ ReadCommitted
    \/ Timeout
    \/ CryptoResults
    \/ AnalyzeCardsReturned
    \/ ScoreHandsReturned

Spec == Init /\ [][Next]_vars

-----------------------------------------------------------------------------
(* The hand scorer on its own: scoreHand applied to two hands of five cards *)

\* the hands are built from the Ace up to LowRanks and from the HighRanks
\* values below the Ace (King, Queen, ...) together with the Ace
LowRanks == 6
HighRanks == 4
LowValues == 1..LowRanks
HighValues == {1} \cup ((14 - HighRanks)..13)

\* the card of the 52-card deck with this value (1..13) and suit (0..3)
CardOf(value, suit) == ((value - 1) * 4) + suit

\* five cards with the given values in ascending order: equal values take
\* successive suits; five different values are all of the first suit (suited)
\* or, when not suited, the last card is of the second suit
HandOf(values, suited) ==
    [i \in 1..5 |->
        CardOf(values[i],
               IF (~suited) /\ (i = 5) /\ (values[4] # values[5]) /\
                  (Cardinality(Range(values)) = 5)
               THEN 1
               ELSE Cardinality({j \in 1..(i - 1) : values[j] = values[i]}))]

Ascending(values) ==
    /\ \A i \in 1..4 : values[i] <= values[i + 1]
    /\ values[1] # values[5]

HandsOver(valueSet) ==
    {HandOf(values, suited) :
        values \in {v \in [1..5 -> valueSet] : Ascending(v)},
        suited \in BOOLEAN}

Hands == HandsOver(LowValues) \cup HandsOver(HighValues)

\* every order of the same five cards
Orders == {p \in [1..5 -> 1..5] : Range(p) = 1..5}
Reorderings(hand) == {[i \in 1..5 |-> hand[p[i]]] : p \in Orders}

\* handObj as scoreHands creates it: score -1 means not scored
NewHandObj(hand) == [hand |-> hand, name |-> "undefined", score |-> NotScored]

ScoreInit ==
    /\ listening = TRUE
    /\ kcListening = TRUE
    /\ timer = "idle"
    /\ folded = {}
    /\ players = RefreshedPlayers
    /\ deck = <<>>
    /\ mappedDeck = <<>>
    /\ deals = EmptyMap
    /\ dealKeys = <<>>
    /\ keychains = EmptyMap
    /\ analysis = NewAnalysis
    /\ events = <<>>
    /\ ac = IdleCall
    /\ deviations = 0
    /\ \E first \in Hands : \E second \in Hands \cup Reorderings(first) :
           handObjs = <<NewHandObj(first), NewHandObj(second)>>
    /\ arrays = NoArrays

\* scoreHand on the next hand object that is not scored yet
ScoreHand ==
    \E i \in 1..Len(handObjs) :
        /\ handObjs[i].score = NotScored
        /\ \A j \in 1..(i - 1) : handObjs[j].score # NotScored
        /\ handObjs' = [handObjs EXCEPT ![i] = scoreHand(handObjs[i].hand)]
        /\ UNCHANGED <<listening, kcListening, timer, folded, players, deck, mappedDeck,
                       deals, dealKeys, keychains, analysis, events, ac, deviations,
                       arrays>>

ScoreNext == ScoreHand

ScoreSpec == ScoreInit /\ [][ScoreNext]_vars

-----------------------------------------------------------------------------
(* The showdown on its own: scoreHands applied to the verified cards *)

\* the cards on the table are the first ShowdownCards cards of the deck
ShowdownCards == 9
BoardSizes == {4, 5}

\* the sequences of n cards in ascending order
Boards(n) ==
    {b \in [1..n -> 0..(ShowdownCards - 1)] : \A i \in 1..(n - 1) : b[i] < b[i + 1]}

\* analyzeCards has returned with two private cards placed for each player and
\* the public cards of the board; `analyzing` is dispatched
ShowdownCall(first, second, board) ==
    [IdleCall EXCEPT !.pc = "returned",
                     !.handler = "analyzeCards",
                     !.privKeys = Roster,
                     !.private = (Roster[1] :> first) @@ (Roster[2] :> second),
                     !.public = board]

ShowdownInit ==
    /\ listening = FALSE
    /\ kcListening = FALSE
    /\ timer = "cleared"
    /\ folded \in FoldedChoices
    /\ players = RefreshedPlayers
    /\ deck = <<>>
    /\ mappedDeck = <<>>
    /\ deals = EmptyMap
    /\ dealKeys = <<>>
    /\ keychains = [p \in Players |-> PlayerKeychain(p)]
    /\ analysis = NewAnalysis
    /\ events = <<"analyzing">>
    /\ deviations = 0
    /\ handObjs = <<>>
    /\ arrays = NoArrays
    /\ \E n \in BoardSizes : \E board \in Boards(n) :
       \E first \in Boards(2) : \E second \in Boards(2) :
           /\ Cardinality(Range(board) \cup Range(first) \cup Range(second)) = n + 4
           /\ ac = ShowdownCall(first, second, board)

\* the rest of onPlayerKeychain once analyzeCards has returned: `analyzed`
\* and scoreHands, then `scored`
ScoreHands ==
    onPlayerKeychainAnalyzed /\ UNCHANGED <<deviations, handObjs, arrays, players>>

ScoreDispatched ==
    onPlayerKeychainScored /\ UNCHANGED <<deviations, handObjs, arrays, players>>

ShowdownNext ==
    \/ ScoreHands
    \/ ScoreDispatched

ShowdownSpec == ShowdownInit /\ [][ShowdownNext]_vars

-----------------------------------------------------------------------------
(* The showdown of a game of three players *)

\* game.players of a game of three
TableRoster == <<"P1", "P2", "P3">>
\* the TableBoard public cards are of the first suit and of every fourth
\* value (ace, 5, 9, king); the private cards are among the first TableCards
\* cards of the deck, of the values that follow these (2, 6, 10) and of the
\* TableSuits suits that follow the first: no straight and no flush is dealt
TableCards == 40
TableBoard == 4
TableSuits == 3

\* the pairs of private cards, in ascending order
TableHoleCards ==
    {h \in [1..2 -> {m \in 0..(TableCards - 1) :
                        ((m \div 4) % 4 = 1) /\ (m % 4 \in 1..TableSuits)}] :
        h[1] < h[2]}

\* analyzeCards has returned with two private cards placed for each of the
\* three players and the public cards of the board; `analyzing` is dispatched
TableInit ==
    /\ listening = FALSE
    /\ kcListening = FALSE
    /\ timer = "cleared"
    /\ folded = {}
    /\ players = [p \in Range(TableRoster) |-> RosterKeychain(p)]
    /\ deck = <<>>
    /\ mappedDeck = <<>>
    /\ deals = EmptyMap
    /\ dealKeys = <<>>
    /\ keychains = [p \in Range(TableRoster) |-> PlayerKeychain(p)]
    /\ analysis = NewAnalysis
    /\ events = <<"analyzing">>
    /\ deviations = 0
    /\ handObjs = <<>>
    /\ arrays = NoArrays
    /\ \E first \in TableHoleCards :
       \E second \in TableHoleCards :
           /\ Range(second) \cap Range(first) = {}
           /\ \E third \in TableHoleCards :
                   /\ Range(third) \cap (Range(first) \cup Range(second)) = {}
                   /\ ac = [IdleCall EXCEPT
                               !.pc = "returned",
                               !.handler = "analyzeCards",
                               !.privKeys = TableRoster,
                               !.private = (TableRoster[1] :> first)
                                           @@ (TableRoster[2] :> second)
                                           @@ (TableRoster[3] :> third),
                               !.public = [i \in 1..TableBoard |-> 16 * (i - 1)]]

TableNext ==
    \/ ScoreHands
    \/ ScoreDispatched

TableSpec == TableInit /\ [][TableNext]_vars

-----------------------------------------------------------------------------
(* The hole-card tie-break of scoreHands on its own *)

\* the hole cards are hearts and diamonds of the HoleRanks values from 2 up
\* and of the HoleRanks values from the King down
HoleRanks == 2
HoleValues == (2..(1 + HoleRanks)) \cup ((14 - HoleRanks)..13)
HoleCards == {CardOf(v, s) : v \in HoleValues, s \in {1, 2}}
HolePairs == {h \in [1..2 -> HoleCards] : h[1] # h[2]}
\* 10, Jack, Queen, King and Ace of spades on the board: the best hand of
\* every player is the board
RoyalBoard == <<CardOf(10, 0), CardOf(11, 0), CardOf(12, 0), CardOf(13, 0), CardOf(1, 0)>>

\* what the first loop of scoreHands leaves with this board: every player is
\* a candidate, with the board as winning hand
BoardWinners ==
    [highestScore |-> scoreHand(RoyalBoard).score,
     winners |-> [i \in 1..Len(Roster) |->
                     [pid |-> Roster[i], hand |-> RoyalBoard,
                      name |-> scoreHand(RoyalBoard).name,
                      score |-> scoreHand(RoyalBoard).score]]]

TieInit ==
    /\ listening = FALSE
    /\ kcListening = FALSE
    /\ timer = "cleared"
    /\ folded = {}
    /\ players = RefreshedPlayers
    /\ deck = <<>>
    /\ mappedDeck = <<>>
    /\ deals = EmptyMap
    /\ dealKeys = <<>>
    /\ keychains = [p \in Players |-> PlayerKeychain(p)]
    /\ analysis = NewAnalysis
    /\ events = <<"analyzing", "analyzed">>
    /\ ac = IdleCall
    /\ deviations = 0
    /\ handObjs = <<>>
    /\ \E first \in HolePairs : \E second \in HolePairs :
           /\ Range(first) \cap Range(second) = {}
           /\ arrays = [called |-> "none",
                        first |-> (Roster[1] :> first) @@ (Roster[2] :> second)]

\* the second loop of scoreHands: winningHand.score = currentScore for every
\* candidate, the candidates of the highest currentScore stay
HoleCardTieBreak ==
    /\ arrays.called = "none"
    /\ arrays' = [called |-> "tieBreak",
                  passed |-> arrays.first,
                  first |-> arrays.first,
                  scores |-> [p \in Players |-> HoleCardScore(arrays.first[p])],
                  returned |-> Reranked(BoardWinners, arrays.first).winners]
    /\ UNCHANGED <<listening, kcListening, timer, folded, players, deck, mappedDeck, deals,
                   dealKeys, keychains, analysis, events, ac, deviations, handObjs>>

TieNext == HoleCardTieBreak

TieSpec == TieInit /\ [][TieNext]_vars

-----------------------------------------------------------------------------
(* createCardPermutations on its own *)

\* the input holds up to seven of the cards 0..PermCards-1, private cards first
PermCards == 8
MaxPermInput == 7
RECURSIVE AscendingSeq(_)
AscendingSeq(S) ==
    IF S = {} THEN <<>>
    ELSE LET m == CHOOSE x \in S : \A y \in S : x <= y
         IN  <<m>> \o AscendingSeq(S \ {m})
PermInputs ==
    {s \in {AscendingSeq(S) : S \in SUBSET (0..(PermCards - 1))} : Len(s) <= MaxPermInput}
        \cup {Reverse(AscendingSeq(S)) : S \in {T \in SUBSET (0..(PermCards - 1)) :
                                                  Cardinality(T) \in {6, 7}}}

PermInit ==
    /\ listening = TRUE
    /\ kcListening = TRUE
    /\ timer = "idle"
    /\ folded = {}
    /\ players = RefreshedPlayers
    /\ deck = <<>>
    /\ mappedDeck = <<>>
    /\ deals = EmptyMap
    /\ dealKeys = <<>>
    /\ keychains = EmptyMap
    /\ analysis = NewAnalysis
    /\ events = <<>>
    /\ ac = IdleCall
    /\ deviations = 0
    /\ handObjs = <<>>
    /\ \E cardsArr \in PermInputs : arrays = [called |-> "none", first |-> cardsArr]

CreateCardPermutations ==
    /\ arrays.called = "none"
    /\ arrays' = [called |-> "createCardPermutations",
                  passed |-> arrays.first,
                  first |-> arrays.first,
                  returned |-> createCardPermutations(arrays.first)]
    /\ UNCHANGED <<listening, kcListening, timer, folded, players, deck, mappedDeck, deals,
                   dealKeys, keychains, analysis, events, ac, deviations, handObjs>>

PermNext == CreateCardPermutations

PermSpec == PermInit /\ [][PermNext]_vars

-----------------------------------------------------------------------------
(* straightType on its own *)

\* the input holds up to five values of 1..MaxStraightValue, and the runs of six
MaxStraightValue == 13
StraightInputs ==
    UNION {[1..n -> 1..MaxStraightValue] : n \in 0..5}
        \cup {[i \in 1..6 |-> c + i - 1] : c \in 1..(MaxStraightValue - 5)}

StraightInit ==
    /\ listening = TRUE
    /\ kcListening = TRUE
    /\ timer = "idle"
    /\ folded = {}
    /\ players = RefreshedPlayers
    /\ deck = <<>>
    /\ mappedDeck = <<>>
    /\ deals = EmptyMap
    /\ dealKeys = <<>>
    /\ keychains = EmptyMap
    /\ analysis = NewAnalysis
    /\ events = <<>>
    /\ ac = IdleCall
    /\ deviations = 0
    /\ handObjs = <<>>
    /\ \E cardValues \in StraightInputs : arrays = [called |-> "none", first |-> cardValues]

StraightType ==
    /\ arrays.called = "none"
    /\ arrays' = [called |-> "straightType",
                  passed |-> arrays.first,
                  first |-> arrays.first,
                  returned |-> straightType(arrays.first)]
    /\ UNCHANGED <<listening, kcListening, timer, folded, players, deck, mappedDeck, deals,
                   dealKeys, keychains, analysis, events, ac, deviations, handObjs>>

StraightNext == StraightType

StraightSpec == StraightInit /\ [][StraightNext]_vars

-----------------------------------------------------------------------------
(* The array functions on their own: compareDecks and removeFromDeck *)

\* the arrays hold up to MaxArrayLen values of 0..MaxArrayValue
MaxArrayLen == 3
MaxArrayValue == 2
Arrays == UNION {[1..n -> 0..MaxArrayValue] : n \in 0..MaxArrayLen}

ArrayInit ==
    /\ listening = TRUE
    /\ kcListening = TRUE
    /\ timer = "idle"
    /\ folded = {}
    /\ players = RefreshedPlayers
    /\ deck = <<>>
    /\ mappedDeck = <<>>
    /\ deals = EmptyMap
    /\ dealKeys = <<>>
    /\ keychains = EmptyMap
    /\ analysis = NewAnalysis
    /\ events = <<>>
    /\ ac = IdleCall
    /\ deviations = 0
    /\ handObjs = <<>>
    /\ \E first \in Arrays : \E second \in Arrays :
           arrays = [called |-> "none", first |-> first, second |-> second]

\* compareDecks(first, second): it works on copies (Array.from) of both arrays
CompareDecks ==
    /\ arrays.called = "none"
    /\ arrays' = [called |-> "compareDecks",
                  passed |-> <<arrays.first, arrays.second>>,
                  first |-> arrays.first,
                  second |-> arrays.second,
                  returned |-> compareDecks(arrays.first, arrays.second)]
    /\ UNCHANGED <<listening, kcListening, timer, folded, players, deck, mappedDeck, deals,
                   dealKeys, keychains, analysis, events, ac, deviations, handObjs>>

\* removeFromDeck(first, second): the items are spliced out of second itself
RemoveFromDeck ==
    /\ arrays.called = "none"
    /\ arrays' = [called |-> "removeFromDeck",
                  passed |-> <<arrays.first, arrays.second>>,
                  first |-> arrays.first,
                  second |-> removeFromDeck(arrays.first, arrays.second).deck,
                  returned |-> removeFromDeck(arrays.first, arrays.second).ok]
    /\ UNCHANGED <<listening, kcListening, timer, folded, players, deck, mappedDeck, deals,
                   dealKeys, keychains, analysis, events, ac, deviations, handObjs>>

ArrayNext ==
    \/ CompareDecks
    \/ RemoveFromDeck

ArraySpec == ArrayInit /\ [][ArrayNext]_vars

-----------------------------------------------------------------------------
(* One batch of crypto calls of analyzeCards, call by call *)

\* the value of a promise of the batch that has not been resolved (no result
\* of the crypto primitive is negative)
Unsettled == -1

\* the array a player sent for the cards that are replayed: the replayed values
\* in the same or another order, with one value replaced, or one value short
BatchTargets(replayed) ==
    {replayed, Reverse(replayed), [replayed EXCEPT ![1] = Foreign(replayed)],
     Tail(replayed)}

\* what one call of the crypto primitive resolves to
CryptoInvoke(op, value, keypair) ==
    IF op = "encrypt" THEN Encrypt(value, keypair) ELSE Decrypt(value, keypair)

BatchInit ==
    /\ listening = FALSE
    /\ kcListening = FALSE
    /\ timer = "cleared"
    /\ folded = {}
    /\ players = RefreshedPlayers
    /\ deck = <<>>
    /\ mappedDeck = <<>>
    /\ deals = EmptyMap
    /\ dealKeys = <<>>
    /\ keychains = [p \in Players |-> PlayerKeychain(p)]
    /\ analysis = NewAnalysis
    /\ events = <<"analyzing">>
    /\ ac = IdleCall
    /\ deviations = 0
    /\ handObjs = <<>>
    /\ \E op \in {"encrypt", "decrypt"}, fromPID \in Players :
       \E previous \in Arrays \ {<<>>} :
       \E sent \in BatchTargets([i \in 1..Len(previous) |->
                       CryptoInvoke(op, previous[i], LastKeypair(keychains, fromPID))]) :
           arrays = [called |-> "none", op |-> op, first |-> previous,
                     second |-> sent,
                     keypair |-> LastKeypair(keychains, fromPID),
                     count |-> 1, fromPID |-> fromPID,
                     sourcePID |-> IF op = "encrypt" THEN ""
                                   ELSE CHOOSE p \in Players : p # fromPID]

\* the loop that pushes one crypto.invoke promise per card
InvokeAll ==
    /\ arrays.called = "none"
    /\ arrays' = [called |-> "awaiting", op |-> arrays.op, first |-> arrays.first,
                  second |-> arrays.second, keypair |-> arrays.keypair,
                  count |-> arrays.count, fromPID |-> arrays.fromPID,
                  sourcePID |-> arrays.sourcePID,
                  results |-> [i \in 1..Len(arrays.first) |-> Unsettled],
                  order |-> <<>>]
    /\ UNCHANGED <<listening, kcListening, timer, folded, players, deck,
                   mappedDeck, deals, dealKeys, keychains, analysis, events, ac,
                   deviations, handObjs>>

\* the promise of call i is resolved: Promise.all keeps its value at index i
CryptoResult ==
    \E i \in 1..Len(arrays.first) :
        /\ arrays.called = "awaiting"
        /\ arrays.results[i] = Unsettled
        /\ arrays' = [arrays EXCEPT
                         !.results[i] = CryptoInvoke(arrays.op, arrays.first[i],
                                                     arrays.keypair),
                         !.order = Append(@, i)]
        /\ UNCHANGED <<listening, kcListening, timer, folded, players, deck,
                       mappedDeck, deals, dealKeys, keychains, analysis, events,
                       ac, deviations, handObjs>>

\* Promise.all is resolved once the first / once every promise is resolved
PromiseAny(results) == \E i \in 1..Len(results) : results[i] # Unsettled
PromiseAll(results) == \A i \in 1..Len(results) : results[i] # Unsettled

\* the error of a batch whose comparison fails: code 1 with the stage and its
\* sender for a deck stage, code 2 with the round, the decryptor and the
\* dealer for a deal step
BatchError(b) ==
    IF b.op = "encrypt"
    THEN Error(1, "DeckEncryption", b.count, b.fromPID, "")
    ELSE Error(2, "PreviousRound", b.count, b.fromPID, b.sourcePID)

\* analyzeCards continues behind the await: compareDeck holds the results in
\* the order of the calls and is compared with the array that was sent. When
\* the comparison fails the error is written to this._analysis, complete is
\* set and the error is thrown; otherwise the loop goes on.
CompareBatch ==
    /\ arrays.called = "awaiting"
    /\ PromiseAll(arrays.results)
    /\ LET IsResult(r) == r # Unsettled
           compareDeck == SelectSeq(arrays.results, IsResult)
           same == IF arrays.op = "encrypt"
                   THEN compareDecks(arrays.second, compareDeck)
                   ELSE compareDecks(compareDeck, arrays.second)
       IN  /\ arrays' = [called |-> "compared", op |-> arrays.op,
                         first |-> arrays.first, second |-> arrays.second,
                         keypair |-> arrays.keypair, count |-> arrays.count,
                         fromPID |-> arrays.fromPID,
                         sourcePID |-> arrays.sourcePID,
                         results |-> arrays.results, order |-> arrays.order,
                         returned |-> same]
           /\ analysis' = IF same THEN analysis
                          ELSE Rejected(analysis, BatchError(arrays))
           /\ ac' = IF same THEN ac ELSE Throw(ac, BatchError(arrays))
    /\ UNCHANGED <<listening, kcListening, timer, folded, players, deck,
                   mappedDeck, deals, dealKeys, keychains, events,
                   deviations, handObjs>>

BatchNext ==
    \/ InvokeAll
    \/ CryptoResult
    \/ CompareBatch

BatchSpec == BatchInit /\ [][BatchNext]_vars

-----------------------------------------------------------------------------
(* The arrays of the events and the rows captured from them *)

\* most events captured
MaxEvents == 3
\* the card arrays the events carry
EventCards == {<<1, 2>>, <<3>>}

\* the places a captured array is stored at
DeckRow(n) == [kind |-> "deck", pid |-> "", index |-> n]
DealRow(pid, n) == [kind |-> "deals", pid |-> pid, index |-> n]
KeychainRow(pid) == [kind |-> "keychains", pid |-> pid, index |-> 0]

\* Array.from(array): a new array of the same elements / the array itself
SameArray(array) == [elements |-> array, shared |-> TRUE]
ArrayFrom(array) == [elements |-> array, shared |-> FALSE]

\* the array object of an event that was handled: its elements now, the row
\* that was captured from it, and whether that row is the same array object
EventArray(array, row) ==
    [elements |-> array, row |-> row, shared |-> ArrayFrom(array).shared,
     mutated |-> FALSE]

\* a row that is assigned again no longer holds the array it held before
Captured(objects, array, row) ==
    Append([k \in 1..Len(objects) |->
               IF objects[k].row = row THEN [objects[k] EXCEPT !.shared = FALSE]
               ELSE objects[k]],
           EventArray(array, row))

CopyInit ==
    /\ listening = TRUE
    /\ kcListening = TRUE
    /\ timer = "idle"
    /\ folded = {}
    /\ players = RefreshedPlayers
    /\ deck = <<>>
    /\ mappedDeck = <<>>
    /\ deals = EmptyMap
    /\ dealKeys = <<>>
    /\ keychains = EmptyMap
    /\ analysis = NewAnalysis
    /\ events = <<>>
    /\ ac = IdleCall
    /\ deviations = 0
    /\ handObjs = <<>>
    /\ arrays = [called |-> "none", objects |-> <<>>]

\* a "gamecardsencrypt" event
CardsEncryptedEvent ==
    \E p \in Players, selected \in EventCards :
        /\ Len(arrays.objects) < MaxEvents
        /\ onEncryptCards(p, ArrayFrom(selected).elements)
        /\ arrays' = [arrays EXCEPT !.objects =
                         Captured(@, selected,
                                  DeckRow(Len(deck) + (IF deck = <<>> THEN 2 ELSE 1)))]
        /\ UNCHANGED <<deviations, handObjs, players>>

NextDealRow(pid) ==
    DealRow(pid, IF pid \in DOMAIN deals THEN Len(deals[pid]) + 1 ELSE 1)

\* a "gamedeal" event of the own player's selection
SelectionEvent ==
    \E selected \in EventCards, isPrivate \in BOOLEAN :
        /\ Len(arrays.objects) < MaxEvents
        /\ onSelectCards(ArrayFrom(selected).elements, isPrivate)
        /\ arrays' = [arrays EXCEPT !.objects =
                         Captured(@, selected, NextDealRow(OwnPID))]
        /\ UNCHANGED <<deviations, handObjs, players>>

\* a "gamedecrypt" event of the own player's decryption
DecryptionEvent ==
    \E S \in Players \ {OwnPID}, selected \in EventCards, isPrivate \in BOOLEAN :
        /\ Len(arrays.objects) < MaxEvents
        /\ onGameDecrypt(S, ArrayFrom(selected).elements, isPrivate)
        /\ arrays' = [arrays EXCEPT !.objects =
                         Captured(@, selected, NextDealRow(S))]
        /\ UNCHANGED <<deviations, handObjs, players>>

\* a "gamedealmsg" event with the selection or decryption of another player
DealMessageEvent ==
    \E from \in Players \ {OwnPID}, S \in Players, selected \in EventCards :
        /\ Len(arrays.objects) < MaxEvents
        /\ onGameDealMessage(from, S, ArrayFrom(selected).elements, TRUE, FALSE)
        /\ arrays' = [arrays EXCEPT !.objects =
                         Captured(@, selected, NextDealRow(S))]
        /\ UNCHANGED <<deviations, handObjs, players>>

\* a "gameplayerkeychain" event
KeychainEvent ==
    \E p \in Players :
        /\ Len(arrays.objects) < MaxEvents
        /\ onPlayerKeychain(p, ArrayFrom(PlayerKeychain(p)).elements)
        /\ arrays' = [arrays EXCEPT !.objects =
                         Captured(@, PlayerKeychain(p), KeychainRow(p))]
        /\ UNCHANGED <<deviations, handObjs, players>>

\* the owner of an event's array writes to it once the handler has returned;
\* a row that is the same array object changes with it
MutatedArray(array) == [array EXCEPT ![1] = (@ + 1) % Modulus]
MutateEventArray ==
    \E k \in 1..Len(arrays.objects) :
        LET o == arrays.objects[k]
            written == MutatedArray(o.elements)
        IN  /\ ~o.mutated
            /\ arrays' = [arrays EXCEPT !.objects[k].elements = written,
                                        !.objects[k].mutated = TRUE]
            /\ deck' = IF o.shared /\ o.row.kind = "deck"
                       THEN [deck EXCEPT ![o.row.index].cards = written]
                       ELSE deck
            /\ deals' = IF o.shared /\ o.row.kind = "deals"
                        THEN [deals EXCEPT ![o.row.pid][o.row.index].cards = written]
                        ELSE deals
            /\ keychains' = IF o.shared /\ o.row.kind = "keychains"
                            THEN [keychains EXCEPT ![o.row.pid] = written]
                            ELSE keychains
            /\ UNCHANGED <<listening, kcListening, timer, folded, players,
                           mappedDeck, dealKeys, analysis, events, ac,
                           deviations, handObjs>>

CopyCryptoResults ==
    resumeAnalyzeCards /\ UNCHANGED <<deviations, handObjs, arrays, players>>

CopyAnalyzed ==
    onPlayerKeychainAnalyzed /\ UNCHANGED <<deviations, handObjs, arrays, players>>

CopyScored ==
    onPlayerKeychainScored /\ UNCHANGED <<deviations, handObjs, arrays, players>>

CopyNext ==
    \/ CardsEncryptedEvent
    \/ SelectionEvent
    \/ DecryptionEvent
    \/ DealMessageEvent
    \/ KeychainEvent
    \/ MutateEventArray
    \/ CopyCryptoResults
    \/ CopyAnalyzed
    \/ CopyScored

CopySpec == CopyInit /\ [][CopyNext]_vars

-----------------------------------------------------------------------------
(* What the transcript says, stated without the operators of the analyzer *)

Occurrences(s, v) == Cardinality({i \in 1..Len(s) : s[i] = v})
SameBag(s, t) ==
    /\ Len(s) = Len(t)
    /\ \A v \in Range(s) \cup Range(t) : Occurrences(s, v) = Occurrences(t, v)
Distinct(s) == \A i, j \in 1..Len(s) : s[i] = s[j] => i = j

\* the last keypair of the keychain player p has committed
Committed(p) == keychains[p][Len(keychains[p])]

\* verification has started / has ended
Started == ac.pc # "idle"
Ended == ac.handler = "done"
\* nothing was captured since the gate fired
Frozen == TranscriptSize = ac.gateSize

\* snapshot i (deck[i + 1]) is the previous snapshot encrypted by its sender
StageHonest(i) ==
    SameBag(deck[i + 1].cards, EncryptAll(deck[i].cards, Committed(deck[i + 1].fromPID)))
BadStages == {i \in 1..(Len(deck) - 1) : ~StageHonest(i)}
FirstBadStage == CHOOSE i \in BadStages : \A j \in BadStages : i <= j
DeckHonest == deck # <<>> /\ Distinct(deck[1].cards) /\ BadStages = {}

\* the positions <<S, i>> of the entries of all deal lists, and their order of
\* examination: lists in the order they were created, entries in list order
Positions == {<<S, i>> \in Players \X (1..MaxDeals) :
                  S \in DOMAIN deals /\ i <= Len(deals[S])}
Entry(pos) == deals[pos[1]][pos[2]]
SelectPositions == {pos \in Positions : Entry(pos).type = "select"}
DecryptPositions == {pos \in Positions : Entry(pos).type = "decrypt"}
ListRank(S) == CHOOSE k \in 1..Len(dealKeys) : dealKeys[k] = S
Before(p, q) == \/ ListRank(p[1]) < ListRank(q[1])
                \/ p[1] = q[1] /\ p[2] < q[2]

\* the ciphertexts left in the final deck when the select at pos is examined
PoolAt(pos) ==
    Range(Last(deck).cards)
        \ UNION {Range(Entry(q).cards) : q \in {r \in SelectPositions : Before(r, pos)}}
SelectHonestAt(pos) ==
    /\ Distinct(Entry(pos).cards)
    /\ Range(Entry(pos).cards) \subseteq PoolAt(pos)
BadSelects == {pos \in SelectPositions : ~SelectHonestAt(pos)}

\* the decrypt entry at pos is the previous entry decrypted by its sender
DecryptHonestAt(pos) ==
    /\ pos[2] > 1
    /\ SameBag(Entry(pos).cards,
               DecryptAll(deals[pos[1]][pos[2] - 1].cards, Committed(Entry(pos).fromPID)))
BadDecrypts == {pos \in DecryptPositions : ~DecryptHonestAt(pos)}
\* the decrypt entries that follow another entry and do not decrypt it
TamperedDecrypts == {pos \in BadDecrypts : pos[2] > 1}

\* the senders of the decrypt entries that directly precede position i of a list
RECURSIVE DecryptorsBefore(_, _)
DecryptorsBefore(list, i) ==
    IF i <= 1 \/ list[i - 1].type = "select" THEN <<>>
    ELSE Append(DecryptorsBefore(list, i - 1), list[i - 1].fromPID)

\* a round is a select of S followed by one decryption of every other player
RoundEndsBefore(S, i) ==
    LET d == DecryptorsBefore(deals[S], i)
    IN  /\ i > Len(d) + 1
        /\ Distinct(d)
        /\ Range(d) = Players \ {S}
ListHonest(S) ==
    /\ RoundEndsBefore(S, Len(deals[S]) + 1)
    /\ \A i \in 1..Len(deals[S]) :
          IF deals[S][i].type = "select"
          THEN /\ deals[S][i].fromPID = S
               /\ i = 1 \/ RoundEndsBefore(S, i)
          ELSE /\ deals[S][i].fromPID # S
               /\ deals[S][i].private = deals[S][i - 1].private
\* every player has encrypted the deck, once
EveryPlayerEncrypted ==
    /\ Len(deck) = Cardinality(Players) + 1
    /\ {deck[i].fromPID : i \in 2..Len(deck)} = Players
TranscriptHonest ==
    /\ DeckHonest
    /\ EveryPlayerEncrypted
    /\ BadSelects = {}
    /\ BadDecrypts = {}
    /\ \A S \in DOMAIN deals : ListHonest(S)

\* the card a ciphertext of the final deck stands for: the decryption under the
\* keypair of every snapshot sender
RECURSIVE Plain(_, _)
Plain(c, i) ==
    IF i <= 1 THEN c ELSE Plain(Decrypt(c, Committed(deck[i].fromPID)), i - 1)
CardsSelectedBy(S) ==
    {Plain(c, Len(deck)) :
        c \in Range(Last(deck).cards) \cap
              UNION {Range(Entry(pos).cards) : pos \in {q \in SelectPositions : q[1] = S}}}

AllPlaced(a) ==
    LET RECURSIVE Join(_)
        Join(keys) == IF keys = <<>> THEN <<>>
                      ELSE a.private[Head(keys)] \o Join(Tail(keys))
    IN  Join(a.privKeys) \o a.public

Lifecycle == <<"analyzing", "analyzed", "scored">>

-----------------------------------------------------------------------------
(* Claims *)

\* C1: once verification of an honest transcript has ended (every player has
\* encrypted the deck once, every snapshot is the previous one encrypted under
\* its sender's last keypair and shuffled, every deal list
\* consists of rounds of a select of ciphertexts still in the final deck and the
\* correct decryptions of the other players, all keychains committed),
\* analyzeCards has raised no error, analysis.error is null and `scored` has
\* been dispatched.
C1_HonestAccepted ==
    (Ended /\ Frozen /\ TranscriptHonest) =>
        /\ ac.pc = "returned"
        /\ analysis.error = NoError
        /\ analysis.complete
        /\ events = Lifecycle
\* an honest hand with hole cards for both players and a community card was scored
C1_Witness ==
    /\ Ended /\ Frozen /\ TranscriptHonest
    /\ events = Lifecycle
    /\ \A p \in Players : p \in DOMAIN analysis.private /\ Len(analysis.private[p]) = 2
    /\ Len(analysis.public) = 1

\* C2: if stage i is the first snapshot that differs, as a multiset, from the
\* encryption of the snapshot before it under its sender's last keypair,
\* verification never gets past stage i, it ends with the error of code 1 for
\* stage i and that sender, and no deal list is examined.
C2_DeckMismatch ==
    (Started /\ Frozen /\ BadStages # {}) =>
        /\ ac.dealer = 0
        /\ ac.private = EmptyMap /\ ac.public = <<>>
        /\ \/ ac.pc = "deck" /\ ac.count <= FirstBadStage
           \/ /\ ac.pc = "thrown"
              /\ ac.error = Error(1, "DeckEncryption", FirstBadStage,
                                  deck[FirstBadStage + 1].fromPID, "")
              /\ analysis.error = ac.error
\* the second stage was tampered with after an honest first stage, and deal
\* lists were captured
C2_Witness ==
    /\ ac.pc = "thrown" /\ Frozen
    /\ BadStages # {} /\ FirstBadStage = 2
    /\ ac.error.code = 1 /\ ac.error.index = 2
    /\ dealKeys # <<>>

\* C3: once verification has ended, if some decrypt entry of some deal list is
\* not the multiset obtained by decrypting the entry before it under its
\* sender's last keypair, verification has failed with an error of code 2 and
\* the hand was not scored.
C3_DecryptChecked ==
    (Ended /\ Frozen /\ DeckHonest /\ TamperedDecrypts # {}) =>
        /\ ac.pc = "thrown"
        /\ ac.error.code = 2
        /\ "scored" \notin Range(events)

\* C4: once analyzeCards has succeeded, every card placed in private[S] or in
\* public while the list of S was walked is the complete decryption of a
\* ciphertext of the verified final deck that a select entry of S holds.
C4_PlacedCardsSelected ==
    (ac.pc = "returned" /\ Frozen) =>
        /\ \A S \in DOMAIN ac.private :
              Range(ac.private[S]) \subseteq CardsSelectedBy(S)
        /\ \A k \in 1..Len(ac.public) :
              ac.public[k] \in CardsSelectedBy(ac.publicBy[k])

\* C5: once analyzeCards has succeeded, no card appears more than once across
\* the private card lists and the public card list.
C5_NoCardTwice ==
    (ac.pc = "returned" /\ Frozen) => Distinct(AllPlaced(ac))

\* C6: once verification of a transcript with a verified deck has ended, if a
\* select entry holds a ciphertext that is not in the remaining pool when the
\* entry is examined (not in the final deck, removed by an earlier select, or
\* listed twice in the entry), verification has failed with an error of code 2.
C6_SelectOutsidePool ==
    (Ended /\ Frozen /\ DeckHonest /\ BadSelects # {}) =>
        /\ ac.pc = "thrown"
        /\ ac.error.code = 2
        /\ analysis.error = ac.error
\* a player selected ciphertexts that another player's select had removed
C6_Witness ==
    /\ ac.pc = "thrown" /\ Frozen /\ DeckHonest
    /\ ac.error.kind = "Duplicates"
    /\ \E pos \in BadSelects :
          /\ Distinct(Entry(pos).cards)
          /\ Range(Entry(pos).cards) \subseteq Range(Last(deck).cards)
          /\ ac.keys[ac.dealer] = pos[1] /\ ac.count + 1 = pos[2]

\* C7: once analyzeCards has aborted with an error, analysis.error holds that
\* error, analysis.complete is true, scoreHands has not run and neither
\* `analyzed` nor `scored` is ever dispatched.
C7_AbortRecorded ==
    (ac.pc = "thrown") =>
        /\ ac.error # NoError
        /\ analysis.error = ac.error
        /\ analysis.complete
        /\ analysis.winningPlayers = <<>> /\ analysis.winningHands = <<>>
        /\ events = <<"analyzing">>
\* verification aborted while the commit timer had not fired
C7_Witness ==
    /\ ac.pc = "thrown"
    /\ timer # "fired"
    /\ analysis.complete /\ analysis.error.code = 2

\* C8: when the commit timer has fired before all keychains were committed,
\* analysis.error is the KeychainTimeout error of code 0 and analysis.complete
\* is true.
C8_TimeoutRecorded ==
    (timer = "fired" /\ ~Started) =>
        /\ analysis.error.code = 0
        /\ analysis.complete

\* C9: once the commit timer has fired before the gate, no later keychain
\* event starts verification: `analyzing` is not dispatched and analyzeCards
\* does not run.
C9_NoStartAfterTimeout ==
    [][(timer = "fired" /\ ~Started) => (ac' = ac /\ events' = events)]_vars

\* C10: the lifecycle events are dispatched in the order analyzing, analyzed,
\* scored, each at most once; keychain events after the gate do not restart
\* the analysis.
C10_LifecycleOrder ==
    \E n \in 0..3 : events = SubSeq(Lifecycle, 1, n)
\* all three events were dispatched and the keychain listener is gone
C10_Witness ==
    /\ events = Lifecycle
    /\ ~kcListening
    /\ timer = "cleared"

-----------------------------------------------------------------------------
(* The gate, the timer and the capture after the gate *)

\* setTimeout runs its callback unless the timer is cleared, and the crypto
\* primitive answers every batch it is given. CryptoResults is enabled exactly
\* when analyzeCards is suspended and always changes ac, and one call takes
\* finitely many batches, so weak fairness of CryptoResults says that the call
\* is not suspended forever. The continuations of onPlayerKeychain are jobs of
\* the promise queue, which runs every job: each changes ac.handler, so none
\* stays to be run forever.
FairSpec == Spec /\ WF_vars(Timeout) /\ []<>(~Suspended) /\ []<>(~Continuing)

\* every player of the roster has a non-empty keychain stored
AllStored == \A p \in Players : p \in DOMAIN keychains /\ keychains[p] # <<>>

\* C11: the timeout handler runs only while some player of the roster has no
\* keychain stored: whenever onKCSTimeout runs, not all keychains are committed,
\* whatever the order of gameanalyze and the keychain events was.
C11_TimeoutOnlyWhileUncommitted ==
    [][(timer # "fired" /\ timer' = "fired") => ~AllStored]_vars

\* C12: once gameanalyze has been handled, analysis.complete eventually becomes
\* true, given that the timer runs and the crypto primitive answers.
C12_EventuallyComplete ==
    (timer # "idle") ~> analysis.complete

\* C13: a keychain that is stored for a player is never changed by a later
\* keychain event of that player.
C13_KeychainStoredOnce ==
    [][\A p \in DOMAIN keychains : keychains'[p] = keychains[p]]_vars

\* C14: once the gate has fired, no captured event changes the deck snapshots
\* or the deal lists, whether gameanalyze was handled before the gate or not.
C14_NoCaptureAfterGate ==
    [][Started => (deck' = deck /\ deals' = deals /\ dealKeys' = dealKeys)]_vars

-----------------------------------------------------------------------------
(* Standard poker ranking of a five-card hand, to compare the scores with *)

HighValuesOf(hand) == {CardHighValue(hand[i]) : i \in 1..Len(hand)}
CountOf(hand, high) == Cardinality({i \in 1..Len(hand) : CardHighValue(hand[i]) = high})
MaxOf(S) == CHOOSE x \in S : \A y \in S : y <= x
MinOf(S) == CHOOSE x \in S : \A y \in S : x <= y
StdFlush(hand) == Cardinality({CardSuit(hand[i]) : i \in 1..Len(hand)}) = 1
StdWheel(hand) == HighValuesOf(hand) = {14, 2, 3, 4, 5}
StdStraight(hand) ==
    /\ Cardinality(HighValuesOf(hand)) = 5
    /\ \/ MaxOf(HighValuesOf(hand)) - MinOf(HighValuesOf(hand)) = 4
       \/ StdWheel(hand)
StdStraightHigh(hand) == IF StdWheel(hand) THEN 5 ELSE MaxOf(HighValuesOf(hand))
StdCounts(hand) == {CountOf(hand, h) : h \in HighValuesOf(hand)}

\* the class of the hand: 10 Royal Flush, 9 Straight Flush, 8 Four of a Kind,
\* 7 Full House, 6 Flush, 5 Straight, 4 Three of a Kind, 3 Two Pairs,
\* 2 One Pair, 1 High Card
StdClass(hand) ==
    IF StdStraight(hand) /\ StdFlush(hand)
    THEN (IF StdStraightHigh(hand) = 14 THEN 10 ELSE 9)
    ELSE IF 4 \in StdCounts(hand) THEN 8
    ELSE IF StdCounts(hand) = {3, 2} THEN 7
    ELSE IF StdFlush(hand) THEN 6
    ELSE IF StdStraight(hand) THEN 5
    ELSE IF 3 \in StdCounts(hand) THEN 4
    ELSE IF Cardinality(HighValuesOf(hand)) = 3 THEN 3
    ELSE IF Cardinality(HighValuesOf(hand)) = 4 THEN 2
    ELSE 1

\* the values of the hand in the order they are compared: larger groups first,
\* higher values first among groups of one size; a straight compares by its
\* highest card only
RECURSIVE StdOrder(_, _)
StdOrder(hand, highs) ==
    IF highs = {} THEN <<>>
    ELSE LET top == CHOOSE h \in highs : \A g \in highs :
                        (CountOf(hand, g) * 15) + g <= (CountOf(hand, h) * 15) + h
         IN  <<top>> \o StdOrder(hand, highs \ {top})

RECURSIVE StdWeight(_, _)
StdWeight(order, weight) ==
    IF order = <<>> THEN weight
    ELSE StdWeight(Tail(order), (weight * 15) + Head(order))

\* two hands compare under standard ranking as their StdRank values do
StdRank(hand) ==
    IF StdStraight(hand)
    THEN StdWeight(<<StdStraightHigh(hand), 0, 0, 0, 0>>, StdClass(hand))
    ELSE LET order == StdOrder(hand, HighValuesOf(hand))
         IN  StdWeight(order \o [i \in 1..(5 - Len(order)) |-> 0], StdClass(hand))

BothScored ==
    /\ Len(handObjs) = 2
    /\ handObjs[1].score # NotScored
    /\ handObjs[2].score # NotScored

\* C15: of two scored hands of five cards, the hand that wins under standard
\* poker ranking has the strictly higher score, and hands that tie under
\* standard ranking have equal scores.
C15_StandardRanking ==
    BothScored =>
        /\ (StdRank(handObjs[1].hand) > StdRank(handObjs[2].hand))
               <=> Greater(handObjs[1].score, handObjs[2].score)
        /\ (StdRank(handObjs[1].hand) = StdRank(handObjs[2].hand))
               <=> (handObjs[1].score = handObjs[2].score)

\* C16: of two scored hands of five cards, a hand of a higher class (Royal
\* Flush, Straight Flush, Four of a Kind, Full House, Flush, Straight, Three of
\* a Kind, Two Pairs, One Pair, High Card) has the strictly higher score.
C16_ClassMonotone ==
    BothScored =>
        \A i, j \in 1..2 :
            (StdClass(handObjs[i].hand) > StdClass(handObjs[j].hand))
                => Greater(handObjs[i].score, handObjs[j].score)

\* the best Straight (10 to Ace, not suited) is scored against the weakest
\* Flush of the hands (Ace, 2, 3, 4, 6 suited)
C16_Witness ==
    /\ BothScored
    /\ handObjs[1].hand = HandOf(<<1, 10, 11, 12, 13>>, FALSE)
    /\ handObjs[2].hand = HandOf(<<1, 2, 3, 4, 6>>, TRUE)
    /\ handObjs[1].name = "Straight"
    /\ handObjs[2].name = "Flush"

SameCards(h1, h2) == (Range(h1) = Range(h2)) /\ (Len(h1) = Len(h2))

\* C17: two scored hands that hold the same five cards in different orders
\* have the same score and the same hand name.
C17_OrderIrrelevant ==
    (BothScored /\ SameCards(handObjs[1].hand, handObjs[2].hand))
        => /\ handObjs[1].score = handObjs[2].score
           /\ handObjs[1].name = handObjs[2].name

\* three of a kind with two kickers, scored in ascending and in another order
C17_Witness ==
    /\ BothScored
    /\ handObjs[1].hand = HandOf(<<2, 2, 2, 3, 4>>, FALSE)
    /\ SameCards(handObjs[1].hand, handObjs[2].hand)
    /\ handObjs[2].hand[1] = handObjs[1].hand[5]
    /\ handObjs[2].hand[5] = handObjs[1].hand[4]
    /\ handObjs[1].name = "Three of a Kind"

ValuesOf(hand) == [i \in 1..Len(hand) |-> CardValue(hand[i])]
LowAce(hand) == Range(ValuesOf(hand)) = {1, 2, 3, 4, 5}
TwoToSix(hand) == Range(ValuesOf(hand)) = {2, 3, 4, 5, 6}

\* C18: the hand Ace, 2, 3, 4, 5 is a straight for which straightType returns 1,
\* named Straight or (suited) Straight Flush, and it scores strictly below the
\* hand 2, 3, 4, 5, 6 of the same name.
C18_LowAceStraight ==
    \A i, j \in 1..2 :
        (BothScored /\ LowAce(handObjs[i].hand) /\ TwoToSix(handObjs[j].hand)
            /\ StdFlush(handObjs[i].hand) = StdFlush(handObjs[j].hand))
        => /\ straightType(ValuesOf(handObjs[i].hand)) = 1
           /\ handObjs[i].name =
                  (IF StdFlush(handObjs[i].hand) THEN "Straight Flush" ELSE "Straight")
           /\ handObjs[j].name = handObjs[i].name
           /\ Greater(handObjs[j].score, handObjs[i].score)

\* the suited hands Ace to 5 and 2 to 6 are both scored
C18_Witness ==
    /\ BothScored
    /\ LowAce(handObjs[1].hand) /\ StdFlush(handObjs[1].hand)
    /\ TwoToSix(handObjs[2].hand) /\ StdFlush(handObjs[2].hand)
    /\ handObjs[1].name = "Straight Flush"
    /\ handObjs[1].score = Number(1500, 0)
    /\ handObjs[2].score = Number(2000, 0)

\* scoreHands was called: it follows the dispatch of `analyzed` in the handler
ScoreHandsCalled == "analyzed" \in Range(events)
\* the players scoreHands looks at: not folded, with private cards placed
InHand == {p \in DOMAIN analysis.private :
              (p \notin folded) /\ (analysis.private[p] # <<>>)}

\* C19: after scoreHands, the list of winners is not empty if some player who
\* has not folded has private cards in the analysis.
C19_WinnersNonEmpty ==
    (ScoreHandsCalled /\ InHand # {}) => analysis.winningPlayers # <<>>

\* the scores of the five-card permutations of a player's cards
PermScores(p) ==
    LET perms == createCardPermutations(analysis.private[p] \o analysis.public)
    IN  {scoreHand(perms[i]).score : i \in 1..Len(perms)}
TopOf(scores) == CHOOSE x \in scores : \A y \in scores : ~Greater(y, x)
BestScore(p) == TopOf(PermScores(p))
\* the number of permutations of the player's cards that reach the score
PermsAt(p, score) ==
    LET perms == createCardPermutations(analysis.private[p] \o analysis.public)
    IN  Cardinality({i \in 1..Len(perms) : scoreHand(perms[i]).score = score})
Contenders == {p \in DOMAIN analysis.private : p \notin folded}
BestScores == [p \in Contenders |-> BestScore(p)]
HighestScore == TopOf({BestScores[p] : p \in Contenders})
Scored == "scored" \in Range(events)

\* the greatest tie-break value among the players who reach the highest score
TopAmong(best) ==
    {p \in DOMAIN best : \A r \in DOMAIN best : ~Greater(best[r], best[p])}
TopContenders == TopAmong(BestScores)
BestHoleCards(p, top) ==
    \A r \in top :
        ~Greater(HoleCardScore(analysis.private[r]), HoleCardScore(analysis.private[p]))
\* two of the players at the top with hole cards of the same, greatest
\* tie-break value are both winners
SplitAmong(top) ==
    \A p, q \in top :
        (/\ p # q
         /\ HoleCardScore(analysis.private[p]) = HoleCardScore(analysis.private[q])
         /\ BestHoleCards(p, top))
        => ({p, q} \subseteq Range(analysis.winningPlayers))

\* C20 (as the tie-break decides it): when two players who have not folded
\* share the highest hand score and have hole cards of the same tie-break
\* value, and no player with that hand score has hole cards of a greater
\* tie-break value, both are winners; and no player is listed twice among the
\* winners, however many of their permutations reach the highest score.
C20_SplitPotAmongBest ==
    Scored =>
        /\ SplitAmong(TopContenders)
        /\ Distinct(analysis.winningPlayers)

\* three players share the highest score, the first two with hole cards of
\* equal value and the third with hole cards of lower value; several
\* permutations of the first player reach that score; the first two win
C20_AmongBestWitness ==
    /\ Scored
    /\ TopContenders = Range(TableRoster)
    /\ HoleCardScore(analysis.private[TableRoster[1]])
           = HoleCardScore(analysis.private[TableRoster[2]])
    /\ Greater(HoleCardScore(analysis.private[TableRoster[1]]),
               HoleCardScore(analysis.private[TableRoster[3]]))
    /\ PermsAt(TableRoster[1], HighestScore) > 1
    /\ analysis.winningPlayers = <<TableRoster[1], TableRoster[2]>>

\* C20 as it is stated: when two players who have not folded share the
\* highest hand score and have hole cards of the same tie-break value, both
\* are winners, whatever the hole cards of the other players; and no player
\* is listed twice among the winners, however many of their permutations reach
\* the highest score.
C20_SplitPot ==
    Scored =>
        /\ LET best == BestScores
           IN  \A p, q \in Contenders :
                   (/\ p # q
                    /\ best[p] = best[q]
                    /\ \A r \in Contenders : ~Greater(best[r], best[p])
                    /\ HoleCardScore(analysis.private[p])
                           = HoleCardScore(analysis.private[q]))
                   => ({p, q} \subseteq Range(analysis.winningPlayers))
        /\ Distinct(analysis.winningPlayers)

\* C21: every winner is a player of the roster who has not folded and has a
\* permutation whose hand score, as scoreHand gave it, is the highest hand
\* score of all permutations of all players who have not folded.
C21_WinnersHoldTopScore ==
    Scored =>
        \A i \in 1..Len(analysis.winningPlayers) :
            LET p == analysis.winningPlayers[i]
            IN  /\ p \in Players
                /\ p \notin folded
                /\ p \in DOMAIN analysis.private
                /\ BestScores[p] = HighestScore

\* nobody folded, the second player alone reaches the highest hand score with
\* hole cards of lower tie-break value than the first player's, and wins
C21_Witness ==
    /\ Scored
    /\ folded = {}
    /\ players = RefreshedPlayers
    /\ Greater(BestScore(Roster[2]), BestScore(Roster[1]))
    /\ Greater(HoleCardScore(analysis.private[Roster[1]]),
               HoleCardScore(analysis.private[Roster[2]]))
    /\ PermsAt(Roster[2], HighestScore) > 1
    /\ analysis.winningPlayers = <<Roster[2]>>

-----------------------------------------------------------------------------
(* compareDecks and removeFromDeck on arbitrary arrays *)

\* C22: compareDecks(A, B) is true exactly when A and B hold the same elements
\* with the same multiplicities in any order; so it gives the same answer for
\* (B, A), it is true for (A, A), and it leaves both arrays as they were.
C22_CompareDecksMultiset ==
    (arrays.called = "compareDecks") =>
        /\ arrays.returned = SameBag(arrays.passed[1], arrays.passed[2])
        /\ compareDecks(arrays.passed[2], arrays.passed[1]) = arrays.returned
        /\ compareDecks(arrays.passed[1], arrays.passed[1])
        /\ arrays.first = arrays.passed[1]
        /\ arrays.second = arrays.passed[2]

\* two arrays with a repeated value, in different orders, compare equal
C22_Witness ==
    /\ arrays.called = "compareDecks"
    /\ arrays.passed = << <<1, 0, 1>>, <<1, 1, 0>> >>
    /\ arrays.returned

\* every order of the elements of s
OrdersOf(s) ==
    {[i \in 1..Len(s) |-> s[p[i]]] :
        p \in {q \in [1..Len(s) -> 1..Len(s)] : Range(q) = 1..Len(s)}}

\* C23: removeFromDeck gives the same answer and leaves the same deck for every
\* order of the items to remove.
C23_RemoveOrderIrrelevant ==
    (arrays.called = "removeFromDeck") =>
        \A items \in OrdersOf(arrays.passed[1]) :
            /\ removeFromDeck(items, arrays.passed[2]).ok = arrays.returned
            /\ removeFromDeck(items, arrays.passed[2]).deck = arrays.second

\* two of three different items are in the deck, one of them twice
C23_Witness ==
    /\ arrays.called = "removeFromDeck"
    /\ arrays.passed = << <<0, 1, 2>>, <<1, 2, 1>> >>
    /\ arrays.second = <<>>
    /\ arrays.returned

\* C24: removeFromDeck returns true exactly when every item to remove was in
\* the deck once and was removed once (each item is asked for once and has
\* exactly one matching element), whatever the deck holds, repeated values
\* included.
C24_RemoveExactlyOnce ==
    (arrays.called = "removeFromDeck") =>
        (arrays.returned <=>
            /\ Distinct(arrays.passed[1])
            /\ \A i \in 1..Len(arrays.passed[1]) :
                   Occurrences(arrays.passed[2], arrays.passed[1][i]) = 1)

-----------------------------------------------------------------------------
(* The deal loops of analyzeCards *)

\* the call run from the point it is at to its return or throw
RECURSIVE RunToEnd(_, _)
RunToEnd(a, kc) ==
    IF a.pc \in {"returned", "thrown"} THEN a ELSE RunToEnd(Resume(a, kc), kc)

\* deal verification of the captured deal lists, the dealers taken in the
\* order of keys, on the fully encrypted deck (the last snapshot)
DealOutcome(keys, kc) ==
    RunToEnd(DealLoop([IdleCall EXCEPT !.encryptedDeck = deck[Len(deck)].cards,
                                       !.keys = keys, !.dealer = 1, !.count = 0],
                      kc), kc)

SameOutcome(a, b) ==
    /\ a.pc = b.pc
    /\ (a.pc = "returned") =>
           /\ DOMAIN a.private = DOMAIN b.private
           /\ \A p \in DOMAIN a.private : a.private[p] = b.private[p]
           /\ SameBag(a.public, b.public)

\* the deal loops of the call were entered: the deck stages verified
DealsVerified == Ended /\ (deck # <<>>) /\ (ac.error.code # 1)

\* C25: once the deck stages have verified, deal verification of the captured
\* transcript with the stored keychains ends the same way (success or failure;
\* on success the same private cards of every player and the same public
\* cards) when the dealers' lists are processed in the opposite order.
C25_DealerOrderIrrelevant ==
    (DealsVerified /\ Frozen) =>
        /\ SameOutcome(DealOutcome(ac.keys, keychains), ac)
        /\ SameOutcome(DealOutcome(Reverse(ac.keys), keychains), ac)

\* both dealers have a deal list, verification succeeded and placed private
\* cards for both
C25_Witness ==
    /\ DealsVerified /\ Frozen
    /\ ac.pc = "returned"
    /\ Len(ac.keys) = 2
    /\ \A p \in Players : p \in DOMAIN ac.private /\ ac.private[p] # <<>>
    /\ ac.public # <<>>

\* the select entries that follow a select entry in their dealer's list
SequentialSelects ==
    {pos \in SelectPositions : pos[2] > 1 /\ Entry(<<pos[1], pos[2] - 1>>).type = "select"}

\* C26: once the deck stages have verified, a deal list with a select entry
\* at an index above 0 that follows a select entry makes analyzeCards throw an
\* error of code 2, recorded in the analysis, and the cards of that second
\* select that were in the pool when its list got there are still in the pool.
C26_SequentialSelectFails ==
    (DealsVerified /\ Frozen /\ SequentialSelects # {}) =>
        /\ ac.pc = "thrown"
        /\ ac.error.code = 2
        /\ analysis.error = ac.error
        /\ \A pos \in SequentialSelects :
               (Range(Entry(pos).cards) \cap PoolAt(pos)) \subseteq Range(ac.encryptedDeck)

\* the call threw at a second select whose cards were all in the pool
C26_Witness ==
    /\ DealsVerified /\ Frozen
    /\ ac.error.kind = "MultipleSelect"
    /\ \E pos \in SequentialSelects :
           /\ pos = <<ac.error.sourcePID, ac.error.index + 1>>
           /\ Range(Entry(pos).cards) \subseteq PoolAt(pos)
           /\ Range(Entry(pos).cards) \subseteq Range(ac.encryptedDeck)

\* the call is suspended at the final decryption of a deal step: the results
\* of the dealer's last keypair on the last decrypt entry before a select
\* ("finalSelect") or on the last entry of the list ("finalLast")
AtFinalDecryption == ac.pc \in {"finalSelect", "finalLast"}
FinalSource == ac.keys[ac.dealer]
FinalEntry ==
    deals[FinalSource][IF ac.pc = "finalSelect" THEN ac.count ELSE ac.count + 1]
\* the results that are no mapping of the captured face-up deck
Unmapped == {i \in 1..Len(ac.results) : ac.results[i] \notin Range(mappedDeck)}
MappedPrefix ==
    IF Unmapped = {} THEN ac.results
    ELSE SubSeq(ac.results, 1, (CHOOSE i \in Unmapped : \A j \in Unmapped : i <= j) - 1)
\* the cards of the step go to the dealer's private cards or to the public ones
PlacedBy(a) ==
    IF FinalEntry.private
    THEN /\ a.private[FinalSource] = ac.private[FinalSource] \o MappedPrefix
         /\ a.public = ac.public
    ELSE /\ a.public = ac.public \o MappedPrefix
         /\ a.private[FinalSource] = ac.private[FinalSource]

\* C27: when the results of a final decryption arrive, the cards placed are
\* exactly the results up to the first one that is no mapping of the captured
\* face-up deck; if there is such a result the call throws an error of code 2,
\* which is recorded, and the analysis gets no card; otherwise all results are
\* placed and the call does not throw at this decryption.
C27_FinalDecryptionMaps ==
    [][(AtFinalDecryption /\ ac' # ac) =>
          /\ PlacedBy(ac')
          /\ (Unmapped # {}) =>
                 /\ ac'.pc = "thrown"
                 /\ ac'.error.code = 2
                 /\ ac'.error.kind = "FinalDecryption"
                 /\ analysis'.error = ac'.error
                 /\ analysis'.private = analysis.private
                 /\ analysis'.public = analysis.public
          /\ (Unmapped = {}) => (ac'.error.kind # "FinalDecryption")]_vars

\* a final decryption failed at its second result: the first card was placed,
\* the call threw with code 2
C27_Witness ==
    /\ ac.pc = "thrown"
    /\ ac.error.kind = "FinalDecryption"
    /\ ac.error.code = 2
    /\ Len(ac.results) > 1
    /\ ac.results[1] \in Range(mappedDeck)
    /\ \E i \in 2..Len(ac.results) : ac.results[i] \notin Range(mappedDeck)

\* the dealers whose stored deal list begins with a decrypt entry
DecryptFirst == {S \in DOMAIN deals : deals[S][1].type = "decrypt"}

\* C28: a deal list that begins with a decrypt entry contributes no card to a
\* successful analysis: when the call has returned without error on the
\* frozen transcript, a dealer whose list begins with a decrypt entry has no
\* private card and no public card in the result.
C28_DecryptFirstContributesNothing ==
    (Ended /\ ac.pc = "returned" /\ Frozen /\ analysis.error = NoError) =>
        \A S \in DecryptFirst :
            /\ analysis.private[S] = <<>>
            /\ \A i \in 1..Len(ac.publicBy) : ac.publicBy[i] # S

-----------------------------------------------------------------------------
(* The deck snapshots *)

\* C29: no two snapshots of recorded encryptions (the snapshots after the
\* dealer's plaintext snapshot 0) have the same fromPID.
C29_OneSnapshotPerPlayer ==
    \A i \in 2..Len(deck) : \A j \in 2..Len(deck) :
        (i # j) => (deck[i].fromPID # deck[j].fromPID)

\* the card arrays a cardsEncrypted event of player p carries
EncryptedCards(p) == {HonestSnapshot(p)} \cup TamperedSnapshots(p)

\* C30: every cardsEncrypted event the analyzer handles appends its cards with
\* its player's PID as the last snapshot and leaves the snapshots before it as
\* they were; the first event also records, before its own snapshot, the
\* dealer's plaintext mappings as snapshot 0. So k events leave k + 1 snapshots
\* in arrival order. No other step changes the snapshots.
C30_SnapshotsInArrivalOrder ==
    [][/\ \A p \in Players : \A cards \in EncryptedCards(p) :
              onEncryptCards(p, cards) =>
                  /\ Len(deck') = (IF deck = <<>> THEN 2 ELSE Len(deck) + 1)
                  /\ \A i \in 1..Len(deck) : deck'[i] = deck[i]
                  /\ deck'[1] = [fromPID |-> Dealer, cards |-> FaceUpDeck]
                  /\ deck'[Len(deck')] = [fromPID |-> p, cards |-> cards]
       /\ (deck' # deck) =>
              \E p \in Players : \E cards \in EncryptedCards(p) : onEncryptCards(p, cards)
      ]_vars

\* two events were captured, the second one of a player who already had a
\* snapshot: three snapshots, the plaintext deck first
C30_Witness ==
    /\ Len(deck) = 3
    /\ deck[1] = [fromPID |-> Dealer, cards |-> FaceUpDeck]
    /\ deck[2].fromPID = deck[3].fromPID
    /\ deck[2].cards # deck[3].cards

-----------------------------------------------------------------------------
(* The deal messages *)

\* the card arrays stored in the deal lists d, and the empty array
CardArraysOf(d) ==
    {<<>>} \cup UNION {{d[S][i].cards : i \in 1..Len(d[S])} : S \in DOMAIN d}

\* the entry a deal message of `from` about the deal of sourcePID is stored as
DealEntry(from, sourcePID, selected, isPrivate) ==
    [fromPID |-> from, type |-> IF from = sourcePID THEN "select" ELSE "decrypt",
     private |-> isPrivate, cards |-> selected]

\* C31: a deal message without a final cards array appends exactly one entry
\* to the list of its sourcePID (creating the list if there is none): a select
\* when the sender is the sourcePID, a decrypt otherwise, with the payload's
\* private flag, sender and selected cards; the other lists stay as they were.
\* A deal message with a final cards array leaves the deal lists unchanged.
C31_DealMessageAppendsOne ==
    [][\A from \in Players : \A sourcePID \in Players : \A isPrivate \in BOOLEAN :
           \A selected \in CardArraysOf(deals') :
               /\ onGameDealMessage(from, sourcePID, selected, isPrivate, FALSE) =>
                      /\ DOMAIN deals' = DOMAIN deals \cup {sourcePID}
                      /\ deals'[sourcePID] =
                             Append(EntriesOf(sourcePID),
                                    DealEntry(from, sourcePID, selected, isPrivate))
                      /\ \A S \in DOMAIN deals : (S # sourcePID) => (deals'[S] = deals[S])
               /\ onGameDealMessage(from, sourcePID, selected, isPrivate, TRUE) =>
                      (deals' = deals /\ dealKeys' = dealKeys)
      ]_vars

\* deal messages of the other player were stored: its own selection and its
\* decryption of the own player's selection
C31_Witness ==
    /\ DOMAIN deals = Players
    /\ \E i \in 1..Len(deals["P2"]) :
           deals["P2"][i].fromPID = "P2" /\ deals["P2"][i].type = "select"
    /\ \E i \in 1..Len(deals["P1"]) :
           deals["P1"][i].fromPID = "P2" /\ deals["P1"][i].type = "decrypt"
                /\ deals["P1"][i].private

-----------------------------------------------------------------------------
(* createCardPermutations *)

\* the sets of five of the cards of s
FiveOf(s) == {T \in SUBSET Range(s) : Cardinality(T) = 5}

\* C32: createCardPermutations returns its input as the only hand when it
\* has five cards or fewer; for six and seven cards it returns 6 and 21 hands
\* of five cards of the input, one for every set of five of the input's cards.
C32_PermutationsAreFiveSubsets ==
    (arrays.called = "createCardPermutations") =>
        IF Len(arrays.passed) <= 5 THEN arrays.returned = <<arrays.passed>>
        ELSE /\ Len(arrays.returned) = (IF Len(arrays.passed) = 6 THEN 6 ELSE 21)
             /\ \A r \in 1..Len(arrays.returned) :
                    /\ Len(arrays.returned[r]) = 5
                    /\ Range(arrays.returned[r]) \in FiveOf(arrays.passed)
             /\ \A T \in FiveOf(arrays.passed) :
                    Cardinality({r \in 1..Len(arrays.returned) :
                                   Range(arrays.returned[r]) = T}) = 1

\* the 21 hands of seven cards were returned
C32_Witness ==
    /\ arrays.called = "createCardPermutations"
    /\ Len(arrays.passed) = 7
    /\ Len(arrays.returned) = 21
    /\ Cardinality(FiveOf(arrays.passed)) = 21

-----------------------------------------------------------------------------
(* straightType *)

\* the low ranks r of 1..9 with the values of s being exactly r..r+4
RunsOf(s) == {r \in 1..9 : Len(s) = 5 /\ Range(s) = r..(r + 4)}

\* C33: straightType returns r of 1..9 when the five values are exactly
\* r..r+4 in any order, 10 when they are 10, 11, 12, 13 and 1, and 0 for every
\* other input (fewer or more than five values, repeated values, runs that
\* wrap around the ace).
C33_StraightType ==
    (arrays.called = "straightType") =>
        arrays.returned =
            (IF RunsOf(arrays.passed) # {} THEN CHOOSE r \in RunsOf(arrays.passed) : TRUE
             ELSE IF Len(arrays.passed) = 5 /\ Range(arrays.passed) = {10, 11, 12, 13, 1}
             THEN 10
             ELSE 0)

\* the straight to the ace, out of order
C33_Witness ==
    /\ arrays.called = "straightType"
    /\ arrays.passed = <<13, 1, 10, 12, 11>>
    /\ arrays.returned = 10

-----------------------------------------------------------------------------
(* The kicker adjustment of scoreHand *)

\* the highvalues that occur n times in the hand
HighValuesWithCount(hand, n) == {h \in HighValuesOf(hand) : CountOf(hand, h) = n}
RECURSIVE SumOf(_)
SumOf(S) == IF S = {} THEN 0 ELSE LET x == CHOOSE y \in S : TRUE IN x + SumOf(S \ {x})

\* C34: a scored Three of a Kind with triple highvalue t and kicker highvalues
\* k1 and k2 has the score 3 * t * 1000 + k1 + k2.
C34_ThreeOfAKindScore ==
    \A i \in 1..Len(handObjs) :
        (handObjs[i].score # NotScored /\ StdClass(handObjs[i].hand) = 4) =>
            handObjs[i].score =
                Number(0, 3 * SumOf(HighValuesWithCount(handObjs[i].hand, 3)) * 1000
                          + SumOf(HighValuesWithCount(handObjs[i].hand, 1)))

\* a scored Four of a Kind with quad highvalue q and kicker highvalue k has
\* the score 4 * q * 10000000 + k
FourOfAKindScore ==
    \A i \in 1..Len(handObjs) :
        (handObjs[i].score # NotScored /\ StdClass(handObjs[i].hand) = 8) =>
            handObjs[i].score =
                Number(40 * SumOf(HighValuesWithCount(handObjs[i].hand, 4)),
                       SumOf(HighValuesWithCount(handObjs[i].hand, 1)))

-----------------------------------------------------------------------------
(* The hole-card tie-break *)

HigherHole(privateCards) == MaxOf(HighValuesOf(privateCards))
LowerHole(privateCards) == MinOf(HighValuesOf(privateCards))

\* C35: of two candidates of the tie-break, the one with the strictly greater
\* higher hole card gets the strictly greater tie-break score, and equal
\* tie-break scores are given only to candidates whose hole-card highvalues
\* are both the same.
C35_TieBreakLexicographic ==
    (arrays.called = "tieBreak") =>
        \A p \in Players : \A q \in Players :
            /\ (HigherHole(arrays.passed[p]) > HigherHole(arrays.passed[q])) =>
                   Greater(arrays.scores[p], arrays.scores[q])
            /\ (arrays.scores[p] = arrays.scores[q]) =>
                   /\ HigherHole(arrays.passed[p]) = HigherHole(arrays.passed[q])
                   /\ LowerHole(arrays.passed[p]) = LowerHole(arrays.passed[q])

-----------------------------------------------------------------------------
(* What has been verified when `scored` is dispatched *)

\* the step dispatches `scored`
ScoredDispatched == ("scored" \notin Range(events)) /\ ("scored" \in Range(events'))

\* C37: when `scored` is dispatched, the last captured deck snapshot is the
\* deck the encryption chain was replayed up to (the pool that is left of the
\* fully encrypted deck is a part of it), and every captured select entry has
\* been walked by the deal verifier, which took its cards out of that pool.
C37_ScoredMeansVerified ==
    [][ScoredDispatched =>
          /\ (deck' # <<>>) =>
                 \A v \in Range(ac'.encryptedDeck) :
                     Occurrences(ac'.encryptedDeck, v) <= Occurrences(Last(deck').cards, v)
          /\ \A S \in DOMAIN deals' : \A i \in 1..Len(deals'[S]) :
                 (deals'[S][i].type = "select") =>
                     (Range(deals'[S][i].cards) \cap Range(ac'.encryptedDeck) = {})
      ]_vars
-----------------------------------------------------------------------------
(* The gate and the own keychain stored by onGameAnalyze *)

\* C36: whenever every player of the roster has a non-empty keychain stored,
\* also when the last one stored is the own keychain that onGameAnalyze copies,
\* `analyzing` is eventually dispatched; no further keychain event is needed
\* (none is required to happen by the fairness of FairSpec).
C36_AllStoredStartsVerification ==
    AllStored ~> ("analyzing" \in Range(events))

-----------------------------------------------------------------------------
(* The order in which the crypto calls of a batch are answered *)

\* what the batch gives when its calls are taken in array order
InOrderVerdict ==
    IF arrays.op = "encrypt"
    THEN compareDecks(arrays.second, EncryptAll(arrays.first, arrays.keypair))
    ELSE compareDecks(DecryptAll(arrays.first, arrays.keypair), arrays.second)

\* C38: the comparison is made only when every call of the batch has been
\* answered, and its verdict is the one of the calls taken in array order,
\* whatever the order in which they were answered: a deck stage compares the
\* snapshot with the encrypted previous deck, a deal step compares the
\* decrypted previous cards with the cards sent. The verdict is the result of
\* the comparison and what follows from it: nothing is recorded when it
\* succeeds; when it fails the analysis is complete with the error of the
\* batch (code 1 for a deck stage, code 2 for a deal step) and that error is
\* thrown.
C38_CompletionOrderIrrelevant ==
    (arrays.called = "compared") =>
        /\ Len(arrays.order) = Len(arrays.first)
        /\ arrays.returned = InOrderVerdict
        /\ analysis = IF InOrderVerdict THEN NewAnalysis
                      ELSE Rejected(NewAnalysis, BatchError(arrays))
        /\ (ac.pc = "thrown") = ~InOrderVerdict
        /\ ~InOrderVerdict => (ac.error = BatchError(arrays))

\* three calls answered last to first, and the comparison succeeded
C38_Witness ==
    /\ arrays.called = "compared"
    /\ arrays.order = <<3, 2, 1>>
    /\ arrays.returned

-----------------------------------------------------------------------------
(* Captured rows are copies *)

\* the array stored at a row
StoredAt(row) ==
    IF row.kind = "deck" THEN deck[row.index].cards
    ELSE IF row.kind = "deals" THEN deals[row.pid][row.index].cards
    ELSE keychains[row.pid]
ArrayWritten ==
    /\ Len(arrays'.objects) = Len(arrays.objects)
    /\ arrays'.objects # arrays.objects
MutatedOf(kind) ==
    {k \in 1..Len(arrays.objects) :
        arrays.objects[k].mutated /\ arrays.objects[k].row.kind = kind}

\* C39: a write to the card array of a cardsEncrypted, selection or decryption
\* event, or to the keychain array of a keychain event, after its handler has
\* returned changes no deck snapshot, no deal entry and no stored keychain.
C39_CapturedRowsAreCopies ==
    [][ArrayWritten => (deck' = deck /\ deals' = deals /\ keychains' = keychains)]_vars

\* a snapshot, a deal entry and a keychain whose event arrays have been
\* written to since, each still as it was captured
C39_Witness ==
    /\ arrays.called = "none"
    /\ \A kind \in {"deck", "deals", "keychains"} :
           \E k \in MutatedOf(kind) :
               MutatedArray(StoredAt(arrays.objects[k].row)) = arrays.objects[k].elements

====
